---- MODULE Spec2Model ----
(***************************************************************************)
(* A model of the first-inning scoring predictor: the predictor lifecycle  *)
(* (train / save / load / predict_game), the edge and expected-value       *)
(* arithmetic of the live predictor, the backtest and the bet ledger, and  *)
(* the season replay of run_backtest with its report.                      *)
(*                                                                         *)
(* Numbers the program holds as floats are modelled as exact rationals     *)
(* <<numerator, denominator>> in lowest terms with a positive denominator; *)
(* every comparison of the program is the same comparison of rationals.    *)
(* SpecDouble alone evaluates the edge and the expected value in binary64. *)
(* The specifications share the variables:                                 *)
(*   Spec          the predictor lifecycle and the operations that need a  *)
(*                 model, generate_predictions included;                   *)
(*   SpecEdge      the pure edge / EV / tier functions applied to inputs   *)
(*                 drawn by Init;                                          *)
(*   SpecBacktest  run_backtest on a season file with a stored model;      *)
(*   SpecStore     save_model and load_model on the model files;           *)
(*   SpecFeatures  the feature builder on a historical set;                *)
(*   SpecBatch     park indicators, temperature and target of a batch;     *)
(*   SpecCollect   the data collector and fix_csv;                         *)
(*   SpecConfig    the value-bet thresholds at the two call sites;         *)
(*   SpecRepeat    predict_game called repeatedly on a loaded model;       *)
(*   SpecLedger    log_bet and update_result on the bet ledger;            *)
(*   SpecDouble    calculate_edge and calculate_ev in float arithmetic.    *)
(***************************************************************************)
EXTENDS Integers, Sequences, FiniteSets, TLC

VARIABLES
    \* ---- SpecEdge: inputs drawn by Init, results of the pure functions
    e_odds,        \* American odds (an integer the odds input accepts)
    e_prob,        \* model probability, a rational in [0,1]
    e_stake,       \* stake, a rational
    e_edge,        \* an edge value as a fraction (0.05 is 5%), a rational
    calc,          \* what each call site computed from the inputs
    \* ---- Spec / SpecBacktest: the predictor and the files
    latest,        \* models/first_inning_model_latest.pkl: None or the bundle
    predictor,     \* a FirstInningPredictor object: model and feature_names
    last,          \* the last operation: its name, outcome and products
    season,        \* the season file handed to run_backtest (rows)
    proba,         \* the classifier's probability for each row of the season
    results_df,    \* ModelBacktester.results_df (None before a run)
    results_file,  \* <season>_backtest_results.csv (None while not written)
    report,        \* what display_results printed
    \* ---- SpecStore: save_model and load_model on the model files
    disk,          \* models/: the latest file and the timestamped archives
    clock,         \* what datetime.now() reads, in seconds
    trainer,       \* a training run inside save_model: its position and bundle
    reader,        \* what the last load_model of the latest file got
    runs,          \* the completed training runs, in order
    \* ---- SpecFeatures: the feature builder on a historical set
    history,       \* the historical events handed to prepare_features
    feat,          \* what each part of the feature builder computed
    \* ---- SpecCollect: the data collector and fix_csv
    records,       \* games_data of collect_season_data
    datafile,      \* mlb_data/first_inning_data_<season>.csv (rows)
    fixed,         \* whether fix_csv has run on the data file
    \* ---- the desk: the caller's settings, the day's output, the bet ledger
    settings,      \* the value-bet thresholds a caller asked for, in percent
    day,           \* what the last generate_predictions returned
    ledger,        \* bet_tracking/bets_log.csv (rows)
    tracker,       \* the last BetTracker call: its arguments and the ledger before
    calls          \* the predict_game calls made on the loaded model, in order

edgeVars == <<e_odds, e_prob, e_stake, e_edge, calc>>
lifeVars == <<latest, predictor, last>>
btVars   == <<season, proba, results_df, results_file, report>>
storeVars == <<disk, clock, trainer, reader, runs>>
featVars == <<history, feat>>
collectVars == <<records, datafile, fixed>>
deskVars == <<settings, day, ledger, tracker, calls>>
dataVars == <<storeVars, featVars, collectVars, deskVars>>
vars     == <<edgeVars, lifeVars, btVars, dataVars>>

None == "None"

\* a value that may be missing: <<>> while missing, <<v>> once present
Absent == <<>>
Some(v) == <<v>>

\* nothing saved, nothing built, nothing collected
NoFeat ==
    [teams |-> Absent, pitchers |-> Absent, lineup |-> Absent,
     parks |-> Absent, temp |-> Absent, target |-> Absent]

StoreIdle ==
    /\ disk = [latest |-> Absent, archive |-> <<>>]
    /\ clock = 1
    /\ trainer = [pc |-> "idle", model_data |-> Absent]
    /\ reader = Absent
    /\ runs = <<>>

FeaturesIdle ==
    /\ history = <<>>
    /\ feat = NoFeat

CollectIdle ==
    /\ records = <<>>
    /\ datafile = <<>>
    /\ fixed = FALSE

\* the thresholds of the two call sites as the program has them, nothing
\* predicted for the day, an empty ledger
DeskIdle ==
    /\ settings = [live |-> 3, backtest |-> 5]
    /\ day = Absent
    /\ ledger = <<>>
    /\ tracker = [op |-> "init"]
    /\ calls = <<>>

DataIdle == StoreIdle /\ FeaturesIdle /\ CollectIdle /\ DeskIdle

-----------------------------------------------------------------------------
(* Exact rational arithmetic standing for the program's float arithmetic.  *)

Abs(n) == IF n < 0 THEN -n ELSE n

RECURSIVE GCD(_, _)
GCD(a, b) == IF b = 0 THEN a ELSE GCD(b, a % b)

\* n/d in lowest terms, d # 0
Rat(n, d) ==
    LET s == IF d < 0 THEN -1 ELSE 1
        g == GCD(Abs(n), Abs(d))
    IN  <<(s * n) \div g, (s * d) \div g>>

RInt(n)    == <<n, 1>>
RAdd(a, b) == Rat(a[1] * b[2] + b[1] * a[2], a[2] * b[2])
RSub(a, b) == Rat(a[1] * b[2] - b[1] * a[2], a[2] * b[2])
RMul(a, b) == Rat(a[1] * b[1], a[2] * b[2])
RDiv(a, b) == Rat(a[1] * b[2], a[2] * b[1])
RLt(a, b)  == a[1] * b[2] < b[1] * a[2]
RLe(a, b)  == a[1] * b[2] <= b[1] * a[2]
RGt(a, b)  == RLt(b, a)
RGe(a, b)  == RLe(b, a)
REq(a, b)  == a[1] * b[2] = b[1] * a[2]
RAbs(a)    == <<Abs(a[1]), a[2]>>

-----------------------------------------------------------------------------
(* Odds -> implied probability: the four implementations.                  *)

\* DailyPredictor.american_odds_to_probability
american_odds_to_probability(odds) ==
    IF odds < 0
    THEN Rat(Abs(odds), Abs(odds) + 100)
    ELSE Rat(100, odds + 100)

\* ModelBacktester.run_backtest, "Calculate implied probability and edge"
backtest_implied_prob(odds) ==
    IF odds < 0
    THEN Rat(Abs(odds), Abs(odds) + 100)
    ELSE Rat(100, odds + 100)

\* BetTracker._prompt_bet_entry, "Calculate implied probability"
ledger_implied_prob(odds) ==
    IF odds < 0
    THEN Rat(Abs(odds), Abs(odds) + 100)
    ELSE Rat(100, odds + 100)

\* a conversion that takes the favourite's branch for the underdog's ratio
american_to_implied_swapped(odds) ==
    IF odds < 0
    THEN Rat(100, Abs(odds) + 100)
    ELSE Rat(100, odds + 100)

\* DraftKingsOddsScraper._american_to_implied
american_to_implied(odds) ==
    IF odds < 0
    THEN Rat(Abs(odds), Abs(odds) + 100)
    ELSE Rat(100, odds + 100)

\* DailyPredictor.calculate_edge
calculate_edge(model_prob, implied_prob) == RSub(model_prob, implied_prob)

-----------------------------------------------------------------------------
(* Edge tiers: the three classifiers.  The glyphs that prefix the live     *)
(* labels in the source are left out of the strings.                       *)

\* ModelBacktester._classify_edge: the edge in percent
classify_edge(edge_pct) ==
    IF RGe(edge_pct, RInt(10)) THEN "Excellent (10%+)"
    ELSE IF RGe(edge_pct, RInt(7)) THEN "Great (7-10%)"
    ELSE IF RGe(edge_pct, RInt(5)) THEN "Good (5-7%)"
    ELSE IF RGe(edge_pct, RInt(3)) THEN "Fair (3-5%)"
    ELSE IF RGe(edge_pct, RInt(0)) THEN "Marginal (0-3%)"
    ELSE "Negative Edge"

\* BetTracker._classify_edge_tier: the edge as a fraction
classify_edge_tier(edge) ==
    IF RGe(edge, Rat(10, 100)) THEN "Excellent (10%+)"
    ELSE IF RGe(edge, Rat(7, 100)) THEN "Great (7-10%)"
    ELSE IF RGe(edge, Rat(5, 100)) THEN "Good (5-7%)"
    ELSE IF RGe(edge, Rat(3, 100)) THEN "Fair (3-5%)"
    ELSE IF RGe(edge, RInt(0)) THEN "Marginal (0-3%)"
    ELSE "Negative Edge"

\* a classifier whose top boundary is exclusive
classify_bet_quality_exclusive(edge) ==
    IF RGt(edge, Rat(10, 100)) THEN "EXCELLENT"
    ELSE IF RGe(edge, Rat(7, 100)) THEN "GREAT"
    ELSE IF RGe(edge, Rat(5, 100)) THEN "GOOD"
    ELSE IF RGe(edge, Rat(3, 100)) THEN "FAIR"
    ELSE IF RGe(edge, RInt(0)) THEN "MARGINAL"
    ELSE "NO VALUE"

\* DailyPredictor._classify_bet_quality: the edge as a fraction
classify_bet_quality(edge) ==
    IF RGe(edge, Rat(10, 100)) THEN "EXCELLENT"
    ELSE IF RGe(edge, Rat(7, 100)) THEN "GREAT"
    ELSE IF RGe(edge, Rat(5, 100)) THEN "GOOD"
    ELSE IF RGe(edge, Rat(3, 100)) THEN "FAIR"
    ELSE IF RGe(edge, RInt(0)) THEN "MARGINAL"
    ELSE "NO VALUE"

-----------------------------------------------------------------------------
(* Expected value.                                                         *)

\* DailyPredictor.calculate_ev; the division by the stake raises
\* ZeroDivisionError for a stake of 0
calculate_ev(model_prob, odds, stake) ==
    LET win_amount ==
            IF odds < 0
            THEN RMul(stake, Rat(100, Abs(odds)))
            ELSE RMul(stake, Rat(odds, 100))
        ev == RSub(RMul(model_prob, win_amount),
                   RMul(RSub(RInt(1), model_prob), stake))
    IN  IF stake[1] = 0
        THEN [error |-> "ZeroDivisionError"]
        ELSE [error      |-> None,
              stake      |-> stake,
              win_amount |-> win_amount,
              ev_dollars |-> ev,
              ev_percent |-> RMul(RDiv(ev, stake), RInt(100)),
              roi        |-> RMul(RDiv(ev, stake), RInt(100))]

\* a ledger entry that pays a favourite like an underdog
prompt_bet_entry_underdog(model_prob, odds, stake) ==
    LET implied_prob == ledger_implied_prob(odds)
        edge == RSub(model_prob, implied_prob)
        win_amount == RMul(stake, Rat(Abs(odds), 100))
        ev == RSub(RMul(model_prob, win_amount),
                   RMul(RSub(RInt(1), model_prob), stake))
    IN  IF stake[1] = 0
        THEN [error |-> "ZeroDivisionError"]
        ELSE [error               |-> None,
              odds                |-> odds,
              stake               |-> stake,
              model_probability   |-> model_prob,
              implied_probability |-> implied_prob,
              edge                |-> edge,
              ev_dollars          |-> ev,
              ev_percent          |-> RMul(RDiv(ev, stake), RInt(100)),
              edge_tier           |-> classify_edge_tier(edge)]

\* BetTracker._prompt_bet_entry, from the odds to the EV fields, followed by
\* BetTracker.log_bet's tier of the entry's edge
prompt_bet_entry(model_prob, odds, stake) ==
    LET implied_prob == ledger_implied_prob(odds)
        edge == RSub(model_prob, implied_prob)
        win_amount ==
            IF odds < 0
            THEN RMul(stake, Rat(100, Abs(odds)))
            ELSE RMul(stake, Rat(odds, 100))
        ev == RSub(RMul(model_prob, win_amount),
                   RMul(RSub(RInt(1), model_prob), stake))
    IN  IF stake[1] = 0
        THEN [error |-> "ZeroDivisionError"]
        ELSE [error               |-> None,
              odds                |-> odds,
              stake               |-> stake,
              model_probability   |-> model_prob,
              implied_probability |-> implied_prob,
              edge                |-> edge,
              ev_dollars          |-> ev,
              ev_percent          |-> RMul(RDiv(ev, stake), RInt(100)),
              edge_tier           |-> classify_edge_tier(edge)]

\* edge columns whose tier is taken of the fraction, not of the percentage
backtest_edge_unscaled(predicted_prob, odds) ==
    LET implied_prob == backtest_implied_prob(odds)
        edge == RSub(predicted_prob, implied_prob)
        edge_pct == RMul(edge, RInt(100))
    IN  [implied_prob |-> implied_prob,
         edge         |-> edge,
         edge_pct     |-> edge_pct,
         edge_tier    |-> classify_edge(edge)]

\* ModelBacktester.run_backtest: the edge columns of one event
backtest_edge(predicted_prob, odds) ==
    LET implied_prob == backtest_implied_prob(odds)
        edge == RSub(predicted_prob, implied_prob)
        edge_pct == RMul(edge, RInt(100))
    IN  [implied_prob |-> implied_prob,
         edge         |-> edge,
         edge_pct     |-> edge_pct,
         edge_tier    |-> classify_edge(edge_pct)]

\* DailyPredictor.generate_predictions: the value fields of one game with odds
live_edge(model_prob, odds) ==
    LET implied_prob == american_odds_to_probability(odds)
        edge == calculate_edge(model_prob, implied_prob)
        ev == calculate_ev(model_prob, odds, RInt(100))
    IN  [implied_probability |-> implied_prob,
         edge                |-> edge,
         edge_percent        |-> RMul(edge, RInt(100)),
         ev_dollars          |-> ev.ev_dollars,
         ev_percent          |-> ev.ev_percent,
         is_value_bet        |-> RGt(edge, Rat(3, 100)),
         bet_quality         |-> classify_bet_quality(edge)]

-----------------------------------------------------------------------------
(* The feature builder, at the level of the columns it produces.           *)

Range(f) == {f[i] : i \in DOMAIN f}
Min(a, b) == IF a < b THEN a ELSE b

\* data['venue'].value_counts().head(10)
TopVenues == 10

\* f'park_{venue.replace(" ", "_")}'
ParkColumn(venue) ==
    CASE venue = "Truist Park"    -> "park_Truist_Park"
      [] venue = "Yankee Stadium" -> "park_Yankee_Stadium"
      [] venue = "Petco Park"     -> "park_Petco_Park"
      [] venue = "T-Mobile Park"  -> "park_T-Mobile_Park"

\* the columns the two pitcher merges and their renames add
PitcherColumns ==
    <<"home_pitcher_1st_inn_rate", "home_pitcher_walk_rate",
      "home_pitcher_k_rate", "home_pitcher_hr_rate", "home_pitcher_gb_rate",
      "home_pitcher_1st_inn_walk_rate", "home_pitcher_1st_inn_hr_rate",
      "starts",
      "away_pitcher_1st_inn_rate", "away_pitcher_walk_rate",
      "away_pitcher_k_rate", "away_pitcher_hr_rate", "away_pitcher_gb_rate",
      "away_pitcher_1st_inn_walk_rate", "away_pitcher_1st_inn_hr_rate",
      "starts_away_p">>

\* the columns the lineup-quality loop adds
LineupColumns ==
    <<"home_weighted_obp", "home_weighted_slg", "home_weighted_ops",
      "home_weighted_walk_rate", "home_weighted_iso",
      "home_weighted_1st_inn_perf", "home_hot_streak_score",
      "away_weighted_obp", "away_weighted_slg", "away_weighted_ops",
      "away_weighted_walk_rate", "away_weighted_iso",
      "away_weighted_1st_inn_perf", "away_hot_streak_score">>

\* the league-average placeholders of the branch without historical data
PlaceholderColumns ==
    <<"home_team_off_rate", "away_team_off_rate",
      "home_pitcher_1st_inn_rate", "away_pitcher_1st_inn_rate",
      "home_pitcher_walk_rate", "away_pitcher_walk_rate",
      "home_pitcher_1st_inn_walk_rate", "away_pitcher_1st_inn_walk_rate">>

\* the venues of a batch by descending count (ties: first seen first), as
\* value_counts() orders them
RECURSIVE RankVenues(_, _)
RankVenues(venues, left) ==
    IF left = {} THEN <<>>
    ELSE LET Occurrences(v) == Cardinality({i \in DOMAIN venues : venues[i] = v})
             First(v) == CHOOSE i \in DOMAIN venues :
                             /\ venues[i] = v
                             /\ \A j \in DOMAIN venues : venues[j] = v => i <= j
             best == CHOOSE v \in left : \A w \in left :
                         \/ Occurrences(v) > Occurrences(w)
                         \/ Occurrences(v) = Occurrences(w) /\ First(v) <= First(w)
         IN  <<best>> \o RankVenues(venues, left \ {best})

value_counts(venues) == RankVenues(venues, Range(venues))

head(s, n) == SubSeq(s, 1, Min(n, Len(s)))

\* FirstInningPredictor.prepare_features: the engineered columns, in the
\* order they are created, of a batch with a venue and a date column whose
\* venues are ranked `ranking`; has_target: the batch has the scored flag;
\* historical: historical_data is given and names pitchers
prepare_features(ranking, has_target, historical) ==
    (IF has_target THEN <<"target">> ELSE <<>>)
    \o (IF historical
        THEN <<"home_team_off_rate", "home_team_off_rate_away",
               "away_team_off_rate_home", "away_team_off_rate">>
             \o PitcherColumns \o LineupColumns
        ELSE PlaceholderColumns)
    \o <<"temp", "temp_hot", "temp_cold">>
    \o [i \in 1..Len(head(ranking, TopVenues)) |-> ParkColumn(ranking[i])]
    \o <<"wind_speed", "high_wind", "month", "is_summer">>

\* the fixed part of get_feature_columns' list
BaseFeatures ==
    <<"temp", "temp_hot", "temp_cold", "wind_speed", "high_wind",
      "home_team_off_rate", "away_team_off_rate",
      "home_pitcher_1st_inn_rate", "away_pitcher_1st_inn_rate",
      "home_pitcher_walk_rate", "away_pitcher_walk_rate",
      "home_pitcher_1st_inn_walk_rate", "away_pitcher_1st_inn_walk_rate",
      "home_pitcher_k_rate", "away_pitcher_k_rate",
      "home_pitcher_hr_rate", "away_pitcher_hr_rate",
      "home_pitcher_1st_inn_hr_rate", "away_pitcher_1st_inn_hr_rate",
      "home_pitcher_gb_rate", "away_pitcher_gb_rate">>
    \o LineupColumns

ParkColumns == {ParkColumn(v) :
                   v \in {"Truist Park", "Yankee Stadium", "Petco Park",
                          "T-Mobile Park"}}

\* FirstInningPredictor.get_feature_columns
get_feature_columns(columns) ==
    LET base_features ==
            BaseFeatures
            \o SelectSeq(columns, LAMBDA c : c \in ParkColumns)
            \o (IF "is_summer" \in Range(columns) THEN <<"is_summer">> ELSE <<>>)
    IN  SelectSeq(base_features, LAMBDA f : f \in Range(columns))

\* df[self.feature_names].fillna(0): the frame's columns named by the list, in
\* the list's order, NaN values replaced by 0; a name that is no column of the
\* frame raises KeyError (Absent)
select_features(columns, feature_names) ==
    LET present == Range(columns)
    IN  IF \A i \in DOMAIN feature_names : feature_names[i] \in present
        THEN Some(feature_names)
        ELSE Absent

-----------------------------------------------------------------------------
(* The predictor: train, save_model, load_model, predict_game.             *)

\* venues of the training batches, and the venue rankings (value_counts) a
\* training batch can have
Venues == {"Truist Park", "Yankee Stadium"}
Rankings ==
    {<<v>> : v \in Venues} \cup {r \in Venues \X Venues : r[1] # r[2]}

\* probabilities predict_proba returns for a prospective row
PredictProbs == {Rat(1, 2), Rat(7, 10)}

\* FirstInningPredictor.__init__
NewPredictor == [model |-> None, feature_names |-> <<>>]

\* the record of an operation: its outcome, the model of the predictor it
\* used once it ended, the matrix it handed to the scaler, the prediction it
\* returned, the odds it was given, the files it wrote
Op(op, outcome, model_after, matrix, prediction, odds, wrote) ==
    [op |-> op, outcome |-> outcome, model_after |-> model_after,
     matrix |-> matrix, prediction |-> prediction, odds |-> odds,
     wrote |-> wrote]

\* FirstInningPredictor.train on a batch whose venues rank `ranking`, with
\* its save_model: the feature list of the prepared batch is recorded and the
\* bundle written as the latest model
Train(ranking) ==
    LET names == get_feature_columns(prepare_features(ranking, TRUE, TRUE))
    IN  /\ predictor' = [model |-> "fitted", feature_names |-> names]
        /\ latest' = Some([model |-> "fitted", feature_names |-> names])
        /\ last' = Op("train", "trained", "fitted", Some(names), Absent, 0,
                      {"first_inning_model_latest.pkl"})
        /\ UNCHANGED <<edgeVars, btVars, dataVars>>

\* FirstInningPredictor.load_model() of the latest file
load_model(p) ==
    IF latest = Absent
    THEN [error |-> "FileNotFoundError", predictor |-> p]
    ELSE [error |-> None,
          predictor |-> [model |-> latest[1].model,
                         feature_names |-> latest[1].feature_names]]

LoadModel ==
    LET r == load_model(predictor)
    IN  /\ predictor' = r.predictor
        /\ last' = Op("load_model",
                      IF r.error = None THEN "loaded" ELSE r.error,
                      r.predictor.model, Absent, Absent, 0, {})
        /\ UNCHANGED <<latest, edgeVars, btVars, dataVars>>

\* the dictionary predict_game returns for probability p
prediction_of(p) ==
    [probability |-> p,
     prediction  |-> IF RGt(p, Rat(1, 2)) THEN "YES" ELSE "NO",
     confidence  |-> IF RGt(RAbs(RSub(p, Rat(1, 2))), Rat(15, 100)) THEN "High"
                     ELSE IF RGt(RAbs(RSub(p, Rat(1, 2))), Rat(8, 100)) THEN "Medium"
                     ELSE "Low"]

\* a predict_game that goes on without a model
predict_game_unguarded(p, venue, historical, prob) ==
    LET X == select_features(prepare_features(<<venue>>, FALSE, historical),
                             p.feature_names)
    IN  IF X = Absent
        THEN [error |-> "KeyError", matrix |-> Absent, prediction |-> Absent]
        ELSE [error |-> None, matrix |-> X,
              prediction |-> Some(prediction_of(prob))]

\* FirstInningPredictor.predict_game of predictor p on one prospective row
\* at `venue`, with or without historical data; prob is what the classifier
\* answers
predict_game(p, venue, historical, prob) ==
    IF p.model = None
    THEN [error |-> "ValueError", matrix |-> Absent, prediction |-> Absent]
    ELSE LET X == select_features(prepare_features(<<venue>>, FALSE, historical),
                                  p.feature_names)
         IN  IF X = Absent
             THEN [error |-> "KeyError", matrix |-> Absent, prediction |-> Absent]
             ELSE [error |-> None, matrix |-> X,
                   prediction |-> Some(prediction_of(prob))]

PredictGame(venue, historical, prob) ==
    LET r == predict_game(predictor, venue, historical, prob)
    IN  /\ last' = Op("predict_game",
                      IF r.error = None THEN "prediction" ELSE r.error,
                      predictor.model, r.matrix, r.prediction, 0, {})
        /\ UNCHANGED <<latest, predictor, edgeVars, btVars, dataVars>>

\* DailyPredictor.get_todays_games: the venues of the sample schedule
TodaysVenues == <<"Truist Park", "Yankee Stadium", "Petco Park", "T-Mobile Park">>

\* the sample schedule of get_todays_games, one game per venue
TodaysGames ==
    [i \in DOMAIN TodaysVenues |-> [game_id |-> i, venue |-> TodaysVenues[i]]]

\* the characters int() reads as decimal digits
DigitValue ==
    [c \in {"0", "1", "2", "3", "4", "5", "6", "7", "8", "9"} |->
        CASE c = "0" -> 0 [] c = "1" -> 1 [] c = "2" -> 2 [] c = "3" -> 3
          [] c = "4" -> 4 [] c = "5" -> 5 [] c = "6" -> 6 [] c = "7" -> 7
          [] c = "8" -> 8 [] c = "9" -> 9]

\* str.strip() of a line of input, a sequence of characters
RECURSIVE strip(_)
strip(text) ==
    IF text = <<>> THEN text
    ELSE IF Head(text) = " " THEN strip(Tail(text))
    ELSE IF text[Len(text)] = " " THEN strip(SubSeq(text, 1, Len(text) - 1))
    ELSE text

\* the value of a run of digits read left to right, after `acc`
RECURSIVE digits_value(_, _)
digits_value(text, acc) ==
    IF text = <<>> THEN acc
    ELSE digits_value(Tail(text), 10 * acc + DigitValue[Head(text)])

\* int(text): an optional sign and decimal digits; Absent stands for
\* ValueError
int_of(text) ==
    LET signed == text # <<>> /\ Head(text) \in {"+", "-"}
        body == IF signed THEN Tail(text) ELSE text
    IN  IF body = <<>> \/ \E i \in DOMAIN body : body[i] \notin DOMAIN DigitValue
        THEN Absent
        ELSE IF signed /\ Head(text) = "-"
        THEN Some(0 - digits_value(body, 0))
        ELSE Some(digits_value(body, 0))

\* add_manual_odds for one game: the line typed for it decides odds and
\* has_odds
manual_odds(pred, line) ==
    LET odds_input == strip(line)
    IN  IF odds_input # <<>>
        THEN IF int_of(odds_input) # Absent
             THEN ("odds" :> int_of(odds_input)[1]) @@ [pred EXCEPT !.has_odds = TRUE]
             ELSE [pred EXCEPT !.has_odds = FALSE]
        ELSE [pred EXCEPT !.has_odds = FALSE]

\* "Calculate value/edge for games with odds"
value_fields(pred) ==
    IF pred.has_odds
    THEN live_edge(pred.model_probability, pred.odds) @@ pred
    ELSE pred

\* x.get('edge', 0)
edge_key(pred) == IF "edge" \in DOMAIN pred THEN pred.edge ELSE RInt(0)

\* list.sort(key=edge, reverse=True): descending, equal keys in their
\* original order
RECURSIVE sort_by_edge(_)
sort_by_edge(preds) ==
    IF preds = <<>> THEN <<>>
    ELSE LET k == CHOOSE i \in DOMAIN preds :
                      /\ \A j \in DOMAIN preds : RGe(edge_key(preds[i]), edge_key(preds[j]))
                      /\ \A j \in 1..(i - 1) : RLt(edge_key(preds[j]), edge_key(preds[i]))
         IN  <<preds[k]>> \o sort_by_edge(SubSeq(preds, 1, k - 1)
                                \o SubSeq(preds, k + 1, Len(preds)))

\* generate_predictions after the predict_game loop: the odds entry when
\* asked for, the value fields, and the order of the returned list
sorted_predictions(results, include_odds, lines) ==
    LET predictions ==
            [i \in DOMAIN results |->
                [game_id           |-> TodaysGames[i].game_id,
                 venue             |-> TodaysGames[i].venue,
                 model_probability |-> results[i].probability,
                 model_prediction  |-> results[i].prediction,
                 confidence        |-> results[i].confidence,
                 has_odds          |-> FALSE]]
        entered == IF include_odds
                   THEN [i \in DOMAIN predictions |-> manual_odds(predictions[i], lines[i])]
                   ELSE predictions
        valued == [i \in DOMAIN entered |-> value_fields(entered[i])]
    IN  sort_by_edge(SelectSeq(valued, LAMBDA q : q.has_odds))
            \o SelectSeq(valued, LAMBDA q : ~q.has_odds)

\* what generate_predictions gave back: None without a model, nothing when
\* it raised, else the list it returned and saved
Returned(outcome, include_odds, lines, predictions) ==
    [outcome |-> outcome, include_odds |-> include_odds, lines |-> lines,
     predictions |-> predictions]

\* DailyPredictor.generate_predictions with its own predictor: load_model,
\* then predict_game (no historical data) of each game, the odds entry, the
\* value fields, the sort, then the predictions file; an exception of
\* predict_game ends it
GeneratePredictions(probs, include_odds, lines) ==
    LET l == load_model(NewPredictor)
        r == [i \in DOMAIN TodaysVenues |->
                 predict_game(l.predictor, TodaysVenues[i], FALSE, probs[i])]
        failed == {i \in DOMAIN r : r[i].error # None}
        outcome == IF l.error # None THEN "no_model"
                   ELSE IF failed # {}
                   THEN r[CHOOSE i \in failed : \A j \in failed : i <= j].error
                   ELSE "prediction"
    IN  /\ last' =
            IF outcome = "prediction"
            THEN Op("generate_predictions", "prediction", l.predictor.model,
                    r[1].matrix, r[1].prediction, 0, {"predictions.json"})
            ELSE Op("generate_predictions", outcome, l.predictor.model,
                    Absent, Absent, 0, {})
        /\ day' = Some(Returned(outcome, include_odds, lines,
                        IF outcome = "prediction"
                        THEN Some(sorted_predictions(
                                 [i \in DOMAIN r |-> r[i].prediction[1]],
                                 include_odds, lines))
                        ELSE Absent))
        /\ UNCHANGED <<latest, predictor, edgeVars, btVars, storeVars, featVars,
                       collectVars, settings, ledger, tracker, calls>>

-----------------------------------------------------------------------------
(* The backtest: run_backtest and display_results.  A season row carries   *)
(* its venue, the month of its date and the scored flag (0 or 1).          *)

\* the flat stake of the simulation, in units
BetStake == 100
\* the smallest number of bets of a venue the venue table shows
MinVenueBets == 5

\* results_df['edge'] > 0.05
would_bet(edge) == RGt(edge, Rat(5, 100))

\* "Calculate profit/loss per bet": what a won bet pays at the assumed odds
win_amount(odds) ==
    IF odds < 0
    THEN RMul(Rat(100, Abs(odds)), RInt(100))
    ELSE RInt(odds)

\* a simulation that books the stake on a win and the winnings on a loss
bet_profit_swapped(bet_won, bet_lost, odds) ==
    IF bet_lost THEN win_amount(odds)
    ELSE IF bet_won THEN RInt(0 - BetStake)
    ELSE RInt(0)

\* results_df['profit']: 0.0, the win amount where bet_won, -100 where bet_lost
bet_profit(bet_won, bet_lost, odds) ==
    IF bet_lost THEN RInt(0 - BetStake)
    ELSE IF bet_won THEN win_amount(odds)
    ELSE RInt(0)

\* model.predict: the label of the classifier, 1 above a probability of 0.5
predict_label(p) == IF RGt(p, Rat(1, 2)) THEN 1 ELSE 0

\* the columns of results_df as run_backtest builds it
ResultColumns ==
    <<"game_id", "date", "home_team", "away_team", "venue", "temperature",
      "predicted_prob", "predicted", "actual", "correct", "implied_prob",
      "edge", "edge_pct", "edge_tier", "would_bet", "bet_won", "bet_lost",
      "profit">>

\* one row of results_df
result_row(game_id, row, p, odds) ==
    LET e == backtest_edge(p, odds)
        bet == would_bet(e.edge)
        won == bet /\ row.scored = 1
        lost == bet /\ row.scored = 0
    IN  [game_id        |-> game_id,
         date           |-> row.date,
         venue          |-> row.venue,
         predicted_prob |-> p,
         predicted      |-> predict_label(p),
         actual         |-> row.scored,
         correct        |-> predict_label(p) = row.scored,
         implied_prob   |-> e.implied_prob,
         edge           |-> e.edge,
         edge_pct       |-> e.edge_pct,
         edge_tier      |-> e.edge_tier,
         would_bet      |-> bet,
         bet_won        |-> won,
         bet_lost       |-> lost,
         profit         |-> bet_profit(won, lost, odds),
         prob_bin       |-> "unset",
         month          |-> 0]

\* pd.cut(predicted_prob, bins=[0, 0.4, 0.45, 0.5, 0.55, 0.6, 1.0], labels):
\* intervals open on the left, closed on the right
prob_bin(p) ==
    IF RLe(p, RInt(0)) \/ RGt(p, RInt(1)) THEN "NaN"
    ELSE IF RLe(p, Rat(40, 100)) THEN "<40%"
    ELSE IF RLe(p, Rat(45, 100)) THEN "40-45%"
    ELSE IF RLe(p, Rat(50, 100)) THEN "45-50%"
    ELSE IF RLe(p, Rat(55, 100)) THEN "50-55%"
    ELSE IF RLe(p, Rat(60, 100)) THEN "55-60%"
    ELSE ">60%"

RECURSIVE RSum(_)
RSum(s) == IF s = <<>> THEN RInt(0) ELSE RAdd(Head(s), RSum(Tail(s)))

\* the sum of a boolean column
Count(flags) == Cardinality({i \in DOMAIN flags : flags[i]})

MonthNames == <<"Jan", "Feb", "Mar", "Apr", "May", "Jun",
                "Jul", "Aug", "Sep", "Oct", "Nov", "Dec">>

\* the break-even rate display_results prints and compares with, in percent
breakeven_rate == Rat(524, 10)

\* "BETTING PERFORMANCE": Absent when no row is a value bet
betting_performance(rows) ==
    LET bets_placed == Count([i \in DOMAIN rows |-> rows[i].would_bet])
        bets_won == Count([i \in DOMAIN rows |-> rows[i].would_bet /\ rows[i].bet_won])
        bets_lost == Count([i \in DOMAIN rows |-> rows[i].would_bet /\ rows[i].bet_lost])
        win_rate == RMul(Rat(bets_won, bets_placed), RInt(100))
        total_staked == bets_placed * BetStake
        total_profit ==
            RSum([i \in DOMAIN rows |->
                     IF rows[i].would_bet THEN rows[i].profit ELSE RInt(0)])
    IN  IF bets_placed = 0 THEN Absent
        ELSE Some([bets_placed    |-> bets_placed,
                   bets_won       |-> bets_won,
                   bets_lost      |-> bets_lost,
                   win_rate       |-> win_rate,
                   total_staked   |-> total_staked,
                   total_profit   |-> total_profit,
                   roi            |-> RMul(RDiv(total_profit, RInt(total_staked)),
                                           RInt(100)),
                   breakeven_rate |-> breakeven_rate,
                   profitable     |-> RGt(win_rate, breakeven_rate)])

\* the 'Games' column of cal_stats: df.groupby('prob_bin', observed=True)
\* counts the rows of every bin that has rows; a row whose bin is NaN is in
\* no group
calibration(rows) ==
    LET bin == [i \in DOMAIN rows |-> prob_bin(rows[i].predicted_prob)]
        observed == {bin[i] : i \in DOMAIN rows} \ {"NaN"}
    IN  [label \in observed |-> Cardinality({i \in DOMAIN rows : bin[i] = label})]

\* ModelBacktester.display_results on the rows of results_df: the report it
\* prints, the frame as it leaves it (three columns added in place), and
\* whether it raised.  The month table takes its labels from the slice
\* first month .. last month of the value bets: as many labels as months in
\* that span, set on as many rows as months with a value bet.
display_results(rows) ==
    LET total_games == Len(rows)
        correct == Count([i \in DOMAIN rows |-> rows[i].correct])
        bets == {i \in DOMAIN rows : rows[i].would_bet}
        bet_venues == {rows[i].venue : i \in bets}
        venue_perf ==
            {v \in bet_venues :
                Cardinality({i \in bets : rows[i].venue = v}) >= MinVenueBets}
        months == {rows[i].date : i \in bets}
        first == CHOOSE m \in months : \A k \in months : m <= k
        final == CHOOSE m \in months : \A k \in months : m >= k
        labels == SubSeq(MonthNames, first, final)
        raised == months # {} /\ Len(labels) # Cardinality(months)
    IN  [report |->
            [total_games |-> total_games,
             correct     |-> correct,
             accuracy    |-> RMul(Rat(correct, total_games), RInt(100)),
             calibration |-> calibration(rows),
             betting     |-> betting_performance(rows),
             venues      |-> venue_perf,
             months      |-> IF months = {} \/ raised THEN <<>> ELSE labels],
         frame |->
            [columns |-> ResultColumns \o <<"prob_bin", "temp_range", "month">>,
             rows    |-> [i \in DOMAIN rows |->
                             [rows[i] EXCEPT !.prob_bin = prob_bin(rows[i].predicted_prob),
                                             !.month = rows[i].date]]],
         error |-> IF raised THEN "ValueError" ELSE None]

\* ModelBacktester.run_backtest(test_data_file, odds) with a backtester of
\* its own: load_model, the features of the season (the season its own
\* historical data), the predictions, results_df, display_results, and then
\* the results file
RunBacktest(odds) ==
    LET l == load_model(NewPredictor)
        ranking == value_counts([i \in DOMAIN season |-> season[i].venue])
        X == select_features(prepare_features(ranking, TRUE, TRUE),
                             l.predictor.feature_names)
        rows == [i \in DOMAIN season |-> result_row(i - 1, season[i], proba[i], odds)]
        d == display_results(rows)
    IN  IF l.error # None
        THEN /\ last' = Op("run_backtest", "no_model", l.predictor.model,
                           Absent, Absent, odds, {})
             /\ UNCHANGED <<latest, predictor, edgeVars, btVars, dataVars>>
        ELSE IF X = Absent
        THEN /\ last' = Op("run_backtest", "KeyError", l.predictor.model,
                           Absent, Absent, odds, {})
             /\ UNCHANGED <<latest, predictor, edgeVars, btVars, dataVars>>
        ELSE /\ results_df' = Some(d.frame)
             /\ report' = Some(d.report)
             /\ results_file' = IF d.error = None THEN Some(d.frame) ELSE results_file
             /\ last' = Op("run_backtest",
                           IF d.error = None THEN "ok" ELSE d.error,
                           l.predictor.model, X, Absent, odds,
                           IF d.error = None THEN {"backtest_results.csv"} ELSE {})
             /\ UNCHANGED <<latest, predictor, edgeVars, season, proba, dataVars>>

-----------------------------------------------------------------------------
(* SpecEdge: the pure functions applied to inputs drawn by Init.           *)

\* the largest and the smallest edge of the classifier inputs, in percent
MaxEdgePct == 12
MaxNegEdgePct == 2

\* odds the odds input accepts (int(...) of the entry, argparse type=int)
OddsSet == {-200, -110, -100, 0, 100, 150}
ProbSet == {Rat(0, 1), Rat(1, 2), Rat(11, 20), Rat(3, 5), Rat(1, 1)}
StakeSet == {RInt(0), RInt(50), RInt(100)}
EdgeSet == {Rat(k, 100) : k \in (0 - MaxNegEdgePct)..MaxEdgePct}

NoCalc ==
    [implied |-> Absent, backtest |-> Absent, live |-> Absent,
     ev |-> Absent, ledger |-> Absent, tiers |-> Absent, double |-> Absent]

EdgeIdle ==
    /\ e_odds = 0
    /\ e_prob = RInt(0)
    /\ e_stake = RInt(0)
    /\ e_edge = RInt(0)
    /\ calc = NoCalc

\* the four conversions of the same odds
OddsToProbability ==
    /\ calc' = [calc EXCEPT !.implied = Some(
                   [live     |-> american_odds_to_probability(e_odds),
                    backtest |-> backtest_implied_prob(e_odds),
                    ledger   |-> ledger_implied_prob(e_odds),
                    scraper  |-> american_to_implied(e_odds)])]
    /\ UNCHANGED <<e_odds, e_prob, e_stake, e_edge>>
    /\ UNCHANGED <<lifeVars, btVars, dataVars>>

BacktestEdge ==
    /\ calc' = [calc EXCEPT !.backtest = Some(backtest_edge(e_prob, e_odds))]
    /\ UNCHANGED <<e_odds, e_prob, e_stake, e_edge>>
    /\ UNCHANGED <<lifeVars, btVars, dataVars>>

LiveEdge ==
    /\ calc' = [calc EXCEPT !.live = Some(live_edge(e_prob, e_odds))]
    /\ UNCHANGED <<e_odds, e_prob, e_stake, e_edge>>
    /\ UNCHANGED <<lifeVars, btVars, dataVars>>

CalculateEv ==
    /\ calc' = [calc EXCEPT !.ev = Some(calculate_ev(e_prob, e_odds, e_stake))]
    /\ UNCHANGED <<e_odds, e_prob, e_stake, e_edge>>
    /\ UNCHANGED <<lifeVars, btVars, dataVars>>

LedgerEntry ==
    /\ calc' = [calc EXCEPT !.ledger =
                   Some(prompt_bet_entry(e_prob, e_odds, e_stake))]
    /\ UNCHANGED <<e_odds, e_prob, e_stake, e_edge>>
    /\ UNCHANGED <<lifeVars, btVars, dataVars>>

\* the three classifiers on the same edge: the backtest's takes it in percent
ClassifyEdge ==
    /\ calc' = [calc EXCEPT !.tiers = Some(
                   [backtest |-> classify_edge(RMul(e_edge, RInt(100))),
                    ledger   |-> classify_edge_tier(e_edge),
                    live     |-> classify_bet_quality(e_edge)])]
    /\ UNCHANGED <<e_odds, e_prob, e_stake, e_edge>>
    /\ UNCHANGED <<lifeVars, btVars, dataVars>>

\* the variables of the other specifications, at rest
LifeIdle ==
    /\ latest = Absent
    /\ predictor = NewPredictor
    /\ last = Op("init", "idle", None, Absent, Absent, 0, {})

BacktestIdle ==
    /\ season = <<>>
    /\ proba = <<>>
    /\ results_df = Absent
    /\ results_file = Absent
    /\ report = Absent

InitEdge ==
    /\ e_odds \in OddsSet
    /\ e_prob \in ProbSet
    /\ e_stake \in StakeSet
    /\ e_edge \in EdgeSet
    /\ calc = NoCalc
    /\ LifeIdle
    /\ BacktestIdle
    /\ DataIdle

NextEdge ==
    \/ OddsToProbability
    \/ BacktestEdge
    \/ LiveEdge
    \/ CalculateEv
    \/ LedgerEntry
    \/ ClassifyEdge

SpecEdge == InitEdge /\ [][NextEdge]_vars

-----------------------------------------------------------------------------
(* Spec: the predictor lifecycle.  SpecBacktest: run_backtest on a season. *)

\* the longest season of SpecBacktest and of Spec
MaxEvents == 2
LifeMaxEvents == 1

Months == {4, 5, 6}
Rows == [venue : Venues, date : Months, scored : {0, 1}]
LifeRows == {r \in Rows : r.date = 4}
\* the seasons of the backtest runs are played at one park
BacktestRows == {r \in Rows : r.venue = "Truist Park"}
SeasonsOf(n, rows) == UNION {[1..k -> rows] : k \in 1..n}

\* odds run_backtest is given (argparse type=int), probabilities the
\* classifier answers for a season row
BacktestOdds == {-110, 5, 1900}
BacktestProbs == {Rat(0, 1), Rat(1, 10), Rat(1, 1)}

\* lines typed at the odds prompt, one per game of the day
OddsSheets ==
    {<<<<"-", "1", "1", "0">>, <<"a", "b", "c">>, <<>>, <<"+", "4", "0", "0">>>>,
     <<<<" ", "1", "5", "0", " ">>, <<"1", ".", "5">>, <<" ">>, <<"-", "1", "1", "0">>>>}

\* what the classifier answers for the games of the day
DayProbs ==
    {[i \in DOMAIN TodaysVenues |-> Rat(1, 2)],
     [i \in DOMAIN TodaysVenues |-> IF i = 2 THEN Rat(7, 10) ELSE Rat(1, 2)]}


\* the bundles train can have saved
TrainedModels ==
    {[model |-> "fitted",
      feature_names |-> get_feature_columns(prepare_features(r, TRUE, TRUE))] :
        r \in Rankings}

NoResults ==
    /\ results_df = Absent
    /\ results_file = Absent
    /\ report = Absent

Init ==
    /\ EdgeIdle
    /\ LifeIdle
    /\ season \in SeasonsOf(LifeMaxEvents, LifeRows)
    /\ proba \in [DOMAIN season -> {Rat(1, 1)}]
    /\ NoResults
    /\ DataIdle

Next ==
    \/ \E ranking \in Rankings : Train(ranking)
    \/ LoadModel
    \/ \E venue \in Venues, historical \in BOOLEAN, prob \in PredictProbs :
          PredictGame(venue, historical, prob)
    \/ \E probs \in DayProbs,
          include_odds \in BOOLEAN, lines \in OddsSheets :
          GeneratePredictions(probs, include_odds, lines)
    \/ \E odds \in BacktestOdds : RunBacktest(odds)

Spec == Init /\ [][Next]_vars

InitBacktest ==
    /\ EdgeIdle
    /\ latest \in {Absent} \cup {Some(m) : m \in TrainedModels}
    /\ predictor = NewPredictor
    /\ last = Op("init", "idle", None, Absent, Absent, 0, {})
    /\ season \in SeasonsOf(MaxEvents, BacktestRows)
    /\ proba \in [DOMAIN season -> BacktestProbs]
    /\ NoResults
    /\ DataIdle

NextBacktest == \E odds \in BacktestOdds : RunBacktest(odds)

SpecBacktest == InitBacktest /\ [][NextBacktest]_vars

-----------------------------------------------------------------------------
(* The claims on the edge arithmetic, stated on their own terms.           *)

Approx(a, b, tol) == RLt(RAbs(RSub(a, b)), tol)

TierNames == {"Excellent", "Great", "Good", "Fair", "Marginal", "Negative"}

\* the tier a label of either label family names
TierOf(label) ==
    CASE label \in {"Excellent (10%+)", "EXCELLENT"} -> "Excellent"
      [] label \in {"Great (7-10%)", "GREAT"}        -> "Great"
      [] label \in {"Good (5-7%)", "GOOD"}           -> "Good"
      [] label \in {"Fair (3-5%)", "FAIR"}           -> "Fair"
      [] label \in {"Marginal (0-3%)", "MARGINAL"}   -> "Marginal"
      [] label \in {"Negative Edge", "NO VALUE"}     -> "Negative"
      [] OTHER                                       -> "no tier"

\* the partition of the edge axis, each lower bound inclusive
InTier(tier, e) ==
    CASE tier = "Excellent" -> RGe(e, Rat(10, 100))
      [] tier = "Great"     -> RGe(e, Rat(7, 100)) /\ RLt(e, Rat(10, 100))
      [] tier = "Good"      -> RGe(e, Rat(5, 100)) /\ RLt(e, Rat(7, 100))
      [] tier = "Fair"      -> RGe(e, Rat(3, 100)) /\ RLt(e, Rat(5, 100))
      [] tier = "Marginal"  -> RGe(e, RInt(0)) /\ RLt(e, Rat(3, 100))
      [] tier = "Negative"  -> RLt(e, RInt(0))
      [] OTHER              -> FALSE

ClaimImplied(o) == IF o < 0 THEN Rat(0 - o, (0 - o) + 100) ELSE Rat(100, o + 100)
ClaimWin(S, o) ==
    IF o < 0 THEN RDiv(RMul(S, RInt(100)), RInt(0 - o))
             ELSE RDiv(RMul(S, RInt(o)), RInt(100))
ClaimEV(p, o, S) == RSub(RMul(p, ClaimWin(S, o)), RMul(RSub(RInt(1), p), S))

\* C3: each of the three classifiers (backtest: edge in percent; ledger and
\* live: edge as a fraction) returns for every edge one label, the label of
\* the one tier of the partition the edge lies in, a boundary belonging to the
\* higher tier: exactly 10% is Excellent, 7% Great, 5% Good, 3% Fair, 0% Marginal.
EdgeTiersPartition ==
    calc.tiers # Absent =>
        LET t == calc.tiers[1]
            Boundary(pct, tier) ==
                e_edge = Rat(pct, 100) =>
                    /\ TierOf(t.backtest) = tier
                    /\ TierOf(t.ledger) = tier
                    /\ TierOf(t.live) = tier
        IN  /\ \A l \in {t.backtest, t.ledger, t.live} :
                /\ TierOf(l) \in TierNames
                /\ InTier(TierOf(l), e_edge)
                /\ \A other \in TierNames \ {TierOf(l)} : ~InTier(other, e_edge)
            /\ Boundary(10, "Excellent")
            /\ Boundary(7, "Great")
            /\ Boundary(5, "Good")
            /\ Boundary(3, "Fair")
            /\ Boundary(0, "Marginal")

\* C3 witness: the three classifiers have classified an edge of exactly 10%
EdgeTiersWitness ==
    /\ calc.tiers # Absent
    /\ e_edge = Rat(10, 100)
    /\ calc.tiers[1].backtest = "Excellent (10%+)"
    /\ calc.tiers[1].live = "EXCELLENT"

ImpliedAgree(q) ==
    /\ q.live = ClaimImplied(e_odds)
    /\ q.backtest = q.live
    /\ q.ledger = q.live
    /\ q.scraper = q.live
    /\ e_odds = -110 => Approx(q.live, Rat(5238, 10000), Rat(1, 10000))
    /\ e_odds = 150 => q.live = Rat(4, 10)

\* C4 as stated: for every integer the odds input accepts the four conversions
\* agree on |o|/(|o|+100) for o < 0 and 100/(o+100) otherwise, the value lies
\* strictly between 0 and 1, -110 gives about 0.5238 and +150 gives 0.4.
ImpliedProbabilityOpenInterval ==
    calc.implied # Absent =>
        LET q == calc.implied[1]
        IN  /\ ImpliedAgree(q)
            /\ RLt(RInt(0), q.live) /\ RLt(q.live, RInt(1))

\* C4 amended: the same for every non-zero integer; odds of 0, which the odds
\* input accepts, convert to exactly 1.
ImpliedProbabilityNonZeroOdds ==
    calc.implied # Absent =>
        LET q == calc.implied[1]
        IN  /\ ImpliedAgree(q)
            /\ e_odds # 0 => RLt(RInt(0), q.live) /\ RLt(q.live, RInt(1))
            /\ e_odds = 0 => q.live = RInt(1)

\* C4 witness: the conversions have run on -110
ImpliedProbabilityWitness ==
    /\ calc.implied # Absent
    /\ e_odds = -110
    /\ calc.implied[1].scraper = Rat(11, 21)

-----------------------------------------------------------------------------
(* The claims on the predictor's life cycle (Spec).                         *)

PredictingOps == {"predict_game", "run_backtest", "generate_predictions"}

\* the predictor an operation predicted with: predict_game the caller's, the
\* other two a predictor of their own after load_model
PredictorUsed ==
    IF last.op = "predict_game" THEN predictor
    ELSE IF latest = Absent THEN NewPredictor
    ELSE [model |-> latest[1].model, feature_names |-> latest[1].feature_names]

\* C1: whenever predict_game, run_backtest or generate_predictions prepares
\* features for an existing model, no error is raised for a missing column
\* and the matrix handed to the scaler has exactly the recorded feature names
\* in the recorded order, for every batch (no historical data, other venues).
FeatureMatrixMatchesModel ==
    (last.op \in PredictingOps /\ PredictorUsed.model # None) =>
        /\ last.outcome # "KeyError"
        /\ last.matrix = Some(PredictorUsed.feature_names)

-----------------------------------------------------------------------------
(* The claims on the backtest (SpecBacktest).                               *)

\* run_backtest got as far as display_results
Displayed == last.op = "run_backtest" /\ last.outcome \in {"ok", "ValueError"}

\* C7: an event is flagged as a bet exactly when its edge meets the 5%
\* threshold, with a stake of 100; a flagged event is exactly one of won (run
\* scored) or lost (no run), its profit the stake's win amount at the assumed
\* odds when won and minus the stake when lost; an unflagged event has profit
\* 0 and is neither won nor lost.
BetFlaggedAtThreshold ==
    Displayed =>
        \A i \in DOMAIN results_df[1].rows :
            LET r == results_df[1].rows[i]
                edge == RSub(proba[i], ClaimImplied(last.odds))
            IN  /\ r.would_bet <=> RGe(edge, Rat(5, 100))
                /\ r.would_bet =>
                       /\ r.bet_won # r.bet_lost
                       /\ r.bet_won <=> season[i].scored = 1
                       /\ r.profit = IF r.bet_won
                                     THEN ClaimWin(RInt(100), last.odds)
                                     ELSE RInt(-100)
                /\ ~r.would_bet =>
                       /\ r.profit = RInt(0)
                       /\ ~r.bet_won
                       /\ ~r.bet_lost

\* every event predicted with probability 1.0 on the side that occurred
PerfectSeason == \A i \in DOMAIN season : proba[i] = RInt(season[i].scored)

\* C8: in a backtest of a season where every event is predicted with
\* probability 1.0 on the side that occurred, the reported accuracy is 100%
\* and, for any positive assumed odds, the ROI over the flagged value bets is
\* positive.
PerfectSeasonProfits ==
    (Displayed /\ PerfectSeason) =>
        /\ report[1].accuracy = RInt(100)
        /\ (last.odds > 0 /\ report[1].betting # Absent) =>
               LET b == report[1].betting[1]
               IN  /\ RGt(b.roi, RInt(0))
                   /\ b.bets_won = b.bets_placed
                   /\ b.bets_lost = 0

\* C8 witness: a perfectly predicted season was backtested at positive odds
\* and a value bet was flagged
PerfectSeasonWitness ==
    /\ Displayed
    /\ PerfectSeason
    /\ last.odds > 0
    /\ report[1].betting # Absent
    /\ report[1].betting[1].bets_placed >= 1

\* C9: the break-even win rate the report compares the value-bet win rate
\* with is the break-even rate of the assumed odds of the run (the win rate
\* at which that price yields zero profit), and the report says profitable
\* exactly when the win rate is above it.
BreakEvenOfAssumedOdds ==
    (Displayed /\ report[1].betting # Absent) =>
        LET b == report[1].betting[1]
            rate == RMul(ClaimImplied(last.odds), RInt(100))
        IN  /\ Approx(b.breakeven_rate, rate, Rat(1, 10))
            /\ b.profitable <=> RGt(b.win_rate, rate)

\* C10: whenever a trained model exists (and its features are found in the
\* season) run_backtest ends having written the results file, one row per
\* input event in input order, whatever the season holds.
ResultsFileWritten ==
    (last.op = "run_backtest" /\ latest # Absent /\ last.outcome # "KeyError") =>
        /\ last.outcome = "ok"
        /\ last.wrote = {"backtest_results.csv"}
        /\ results_file # Absent
        /\ results_file = results_df
        /\ DOMAIN results_file[1].rows = DOMAIN season
        /\ \A i \in DOMAIN season :
               /\ results_file[1].rows[i].game_id = i - 1
               /\ results_file[1].rows[i].date = season[i].date
               /\ results_file[1].rows[i].venue = season[i].venue
               /\ results_file[1].rows[i].actual = season[i].scored

-----------------------------------------------------------------------------
(* SpecStore: save_model and load_model on the files of models/.  A file   *)
(* is the sequence of pickle chunks written to it so far; a training run   *)
(* writes the latest file chunk by chunk while a reader may load it.       *)

\* training runs and clock seconds of a behaviour
MaxRuns == 2
MaxClock == 2

\* FirstInningPredictor.__init__ with every field save_model stores
FreshPredictor ==
    [model |-> None, scaler |-> Absent, feature_names |-> <<>>,
     team_stats |-> Absent, pitcher_stats |-> Absent]

\* the predictors train can have produced: fitted classifier, fitted scaler
\* (mean, scale), recorded feature names and the two rate tables
FittedPredictors ==
    {[model |-> "classifier A",
      scaler |-> Some([mean |-> RInt(70), scale |-> RInt(10)]),
      feature_names |-> <<"temp", "temp_hot", "home_team_off_rate">>,
      team_stats |-> Some(<<[team |-> "ATL", home |-> Rat(1, 2), away |-> Rat(42, 100)]>>),
      pitcher_stats |-> Some(<<[pitcher |-> "Cole", rate |-> Rat(1, 2)]>>)],
     [model |-> "classifier B",
      scaler |-> Some([mean |-> RInt(75), scale |-> RInt(8)]),
      feature_names |-> <<"temp", "home_team_off_rate">>,
      team_stats |-> Some(<<[team |-> "NYY", home |-> Rat(45, 100), away |-> Rat(1, 1)]>>),
      pitcher_stats |-> Some(<<>>)]}

\* feature vectors (before scaling) a prediction is asked for
FeatureVectors == {<<RInt(60)>>, <<RInt(90)>>}

\* model.predict_proba(scaler.transform(x)): the classifier applied to the
\* scaled vector, a function of the classifier, the scaler and x
predict_proba(p, x) ==
    [classifier |-> p.model, scaler |-> p.scaler, x |-> x]

\* the dictionary save_model pickles
model_data(p, timestamp) ==
    [model |-> p.model, scaler |-> p.scaler, feature_names |-> p.feature_names,
     team_stats |-> p.team_stats, pitcher_stats |-> p.pitcher_stats,
     timestamp |-> timestamp]

PickleKeys == <<"model", "scaler", "feature_names", "team_stats",
                "pitcher_stats", "timestamp">>

Chunk(key, value) == [key |-> key, value |-> Some(value)]
PickleStop == [key |-> "STOP", value |-> Absent]

\* pickle.dump(model_data, f): one chunk per item of the dictionary, in its
\* order, and the STOP opcode
pickle_dump(d) ==
    <<Chunk("model", d.model), Chunk("scaler", d.scaler),
      Chunk("feature_names", d.feature_names),
      Chunk("team_stats", d.team_stats),
      Chunk("pitcher_stats", d.pitcher_stats),
      Chunk("timestamp", d.timestamp), PickleStop>>

\* pickle.load(f) of what the file holds: EOFError on an empty file,
\* UnpicklingError on a file that ends before STOP
pickle_load(content) ==
    IF content = <<>>
    THEN [error |-> "EOFError", data |-> Absent]
    ELSE IF content[Len(content)].key # "STOP" \/ Len(content) # Len(PickleKeys) + 1
    THEN [error |-> "UnpicklingError", data |-> Absent]
    ELSE [error |-> None,
          data |-> Some([model         |-> content[1].value[1],
                         scaler        |-> content[2].value[1],
                         feature_names |-> content[3].value[1],
                         team_stats    |-> content[4].value[1],
                         pitcher_stats |-> content[5].value[1],
                         timestamp     |-> content[6].value[1]])]

\* a load_model that keeps the scaler of __init__
load_model_file_unscaled(p, file) ==
    IF file = Absent
    THEN [error |-> "FileNotFoundError", predictor |-> p]
    ELSE LET r == pickle_load(file[1])
         IN  IF r.error # None
             THEN [error |-> r.error, predictor |-> p]
             ELSE [error |-> None,
                   predictor |-> [model         |-> r.data[1].model,
                                  scaler        |-> p.scaler,
                                  feature_names |-> r.data[1].feature_names,
                                  team_stats    |-> r.data[1].team_stats,
                                  pitcher_stats |-> r.data[1].pitcher_stats]]

\* FirstInningPredictor.load_model of predictor p on `file` (Absent while the
\* file does not exist): the fields are assigned after pickle.load returned
load_model_file(p, file) ==
    IF file = Absent
    THEN [error |-> "FileNotFoundError", predictor |-> p]
    ELSE LET r == pickle_load(file[1])
         IN  IF r.error # None
             THEN [error |-> r.error, predictor |-> p]
             ELSE [error |-> None,
                   predictor |-> [model         |-> r.data[1].model,
                                  scaler        |-> r.data[1].scaler,
                                  feature_names |-> r.data[1].feature_names,
                                  team_stats    |-> r.data[1].team_stats,
                                  pitcher_stats |-> r.data[1].pitcher_stats]]

\* the archive with the file of `timestamp` written
WriteArchive(archive, timestamp, content) ==
    [t \in DOMAIN archive \cup {timestamp} |->
        IF t = timestamp THEN content ELSE archive[t]]

\* datetime.now(): a second passes
Tick ==
    /\ clock < MaxClock
    /\ clock' = clock + 1
    /\ UNCHANGED <<disk, trainer, reader, runs>>
    /\ UNCHANGED <<edgeVars, lifeVars, btVars, featVars, collectVars, deskVars>>

\* save_model of a trained predictor p begins: the timestamp is read and the
\* bundle built
SaveBegin(p) ==
    /\ trainer.pc = "idle"
    /\ Len(runs) < MaxRuns
    /\ trainer' = [pc |-> "archive", model_data |-> Some(model_data(p, clock))]
    /\ UNCHANGED <<disk, clock, reader, runs>>
    /\ UNCHANGED <<edgeVars, lifeVars, btVars, featVars, collectVars, deskVars>>

\* with open(filename, 'wb'): pickle.dump, the timestamped file
SaveArchive ==
    /\ trainer.pc = "archive"
    /\ disk' = [disk EXCEPT !.archive =
                   WriteArchive(disk.archive, trainer.model_data[1].timestamp,
                                pickle_dump(trainer.model_data[1]))]
    /\ trainer' = [trainer EXCEPT !.pc = "open_latest"]
    /\ UNCHANGED <<clock, reader, runs>>
    /\ UNCHANGED <<edgeVars, lifeVars, btVars, featVars, collectVars, deskVars>>

\* open(latest_file, 'wb'): the latest file is created or truncated
OpenLatest ==
    /\ trainer.pc = "open_latest"
    /\ disk' = [disk EXCEPT !.latest = Some(<<>>)]
    /\ trainer' = [trainer EXCEPT !.pc = "write_latest"]
    /\ UNCHANGED <<clock, reader, runs>>
    /\ UNCHANGED <<edgeVars, lifeVars, btVars, featVars, collectVars, deskVars>>

\* pickle.dump(model_data, f): the next chunk reaches the latest file
WriteLatest ==
    /\ trainer.pc = "write_latest"
    /\ LET whole == pickle_dump(trainer.model_data[1])
           written == Len(disk.latest[1])
       IN  /\ written < Len(whole)
           /\ disk' = [disk EXCEPT !.latest = Some(Append(disk.latest[1], whole[written + 1]))]
    /\ UNCHANGED <<clock, trainer, reader, runs>>
    /\ UNCHANGED <<edgeVars, lifeVars, btVars, featVars, collectVars, deskVars>>

\* the with block of the latest file ends and the training run is complete
CloseLatest ==
    /\ trainer.pc = "write_latest"
    /\ Len(disk.latest[1]) = Len(pickle_dump(trainer.model_data[1]))
    /\ runs' = Append(runs, trainer.model_data[1])
    /\ trainer' = [pc |-> "idle", model_data |-> Absent]
    /\ UNCHANGED <<disk, clock, reader>>
    /\ UNCHANGED <<edgeVars, lifeVars, btVars, featVars, collectVars, deskVars>>

\* load_model() of a fresh predictor (another process): what it got, and
\* where the training runs stood when it read the latest file
LoadLatest ==
    /\ LET r == load_model_file(FreshPredictor, disk.latest)
       IN  reader' = Some([error |-> r.error, predictor |-> r.predictor,
                           completed |-> Len(runs), saving |-> trainer.pc])
    /\ UNCHANGED <<disk, clock, trainer, runs>>
    /\ UNCHANGED <<edgeVars, lifeVars, btVars, featVars, collectVars, deskVars>>

InitStore ==
    /\ EdgeIdle
    /\ LifeIdle
    /\ BacktestIdle
    /\ StoreIdle
    /\ FeaturesIdle
    /\ CollectIdle
    /\ DeskIdle

NextStore ==
    \/ Tick
    \/ \E p \in FittedPredictors : SaveBegin(p)
    \/ SaveArchive
    \/ OpenLatest
    \/ WriteLatest
    \/ CloseLatest
    \/ LoadLatest

SpecStore == InitStore /\ [][NextStore]_vars

\* the predictor a bundle was saved from
SavedPredictor(d) ==
    [model |-> d.model, scaler |-> d.scaler, feature_names |-> d.feature_names,
     team_stats |-> d.team_stats, pitcher_stats |-> d.pitcher_stats]

\* C11: save_model followed by load_model into a fresh predictor restores
\* the classifier, the scaler parameters, the ordered feature names and the
\* team and pitcher tables unchanged, and the loaded predictor predicts as
\* the saved one on every feature vector.
SaveLoadRoundTrip ==
    (reader # Absent /\ reader[1].saving = "idle" /\ reader[1].completed >= 1) =>
        LET m == SavedPredictor(runs[reader[1].completed])
            l == reader[1].predictor
        IN  /\ reader[1].error = None
            /\ l.model = m.model
            /\ l.scaler = m.scaler
            /\ l.feature_names = m.feature_names
            /\ l.team_stats = m.team_stats
            /\ l.pitcher_stats = m.pitcher_stats
            /\ \A x \in FeatureVectors : predict_proba(l, x) = predict_proba(m, x)

\* C11 witness: classifier B was saved and loaded back after the run ended
SaveLoadWitness ==
    /\ reader # Absent
    /\ reader[1].saving = "idle"
    /\ reader[1].completed >= 1
    /\ reader[1].predictor.model = "classifier B"
    /\ reader[1].predictor.scaler = Some([mean |-> RInt(75), scale |-> RInt(8)])

\* the bundles whose save has at least begun
BegunSaves ==
    {runs[k] : k \in DOMAIN runs}
        \cup (IF trainer.model_data = Absent THEN {} ELSE {trainer.model_data[1]})

\* C12: a reader that loads the latest model while a training run saves it
\* never observes a partially written model: it gets the complete previous
\* model or the complete new one.
ReaderSeesCompleteModel ==
    reader # Absent =>
        \/ /\ reader[1].error = "FileNotFoundError"
           /\ reader[1].completed = 0
        \/ /\ reader[1].error = None
           /\ \E d \in BegunSaves : reader[1].predictor = SavedPredictor(d)

\* C13: after any sequence of completed training runs each run has its own
\* timestamped archive holding its model, the latest file holds the model of
\* the most recent run, and no later run changed the archive of an earlier one.
ArchivesKept ==
    /\ \A k \in DOMAIN runs :
           /\ runs[k].timestamp \in DOMAIN disk.archive
           /\ disk.archive[runs[k].timestamp] = pickle_dump(runs[k])
    /\ (runs # <<>> /\ trainer.pc \in {"idle", "archive"}) =>
           /\ disk.latest = Some(pickle_dump(runs[Len(runs)]))
           /\ load_model_file(FreshPredictor, disk.latest).predictor
                  = SavedPredictor(runs[Len(runs)])

-----------------------------------------------------------------------------
(* SpecFeatures: the aggregators of prepare_features on a historical set.  *)
(* An event carries its two teams, its two starting pitchers and the runs  *)
(* of each side in the first inning.                                       *)

MaxHistory == 2

\* a float that is not a number
NaN == <<>>
FAdd(a, b) == IF a = NaN \/ b = NaN THEN NaN ELSE RAdd(a, b)
FMul(a, b) == IF a = NaN \/ b = NaN THEN NaN ELSE RMul(a, b)
FDiv(a, b) == IF a = NaN \/ b = NaN THEN NaN ELSE RDiv(a, b)
\* comparisons with NaN are False
FGt(a, b) == a # NaN /\ b # NaN /\ RGt(a, b)
FLt(a, b) == a # NaN /\ b # NaN /\ RLt(a, b)
\* the builtins min(a, b) and max(a, b): b only where it compares beyond a
py_min(a, b) == IF FLt(b, a) THEN b ELSE a
py_max(a, b) == IF FGt(b, a) THEN b ELSE a

Teams == {"ATL", "NYY"}
\* a team the historical set never holds
OtherTeam == "BOS"
Pitchers == {"Cole", "Unknown"}
\* a pitcher the historical set never holds
OtherPitcher == "Ohtani"
RunsSet == {0, 2}

\* a historical event: two different teams, a starter on each side (not the
\* same man on both), a scoreless first inning or one side scoring
Events ==
    {e \in [home_team : Teams, away_team : Teams,
            home_pitcher : Pitchers, away_pitcher : Pitchers,
            first_inning_runs_home : RunsSet, first_inning_runs_away : RunsSet] :
        /\ e.home_team # e.away_team
        /\ ~(e.home_pitcher = "Cole" /\ e.away_pitcher = "Cole")
        /\ ~(e.first_inning_runs_home > 0 /\ e.first_inning_runs_away > 0)}

Histories == UNION {[1..k -> Events] : k \in 1..MaxHistory}

\* pd.DataFrame(list of rows): the rows of a set of keys, one after another
RECURSIVE FrameOf(_, _)
FrameOf(keys, row) ==
    IF keys = {} THEN <<>>
    ELSE LET k == CHOOSE x \in keys : TRUE
         IN  <<row[k]>> \o FrameOf(keys \ {k}, row)

\* FirstInningPredictor._calculate_team_stats: one row per team of the set
\* of home and away teams
calculate_team_stats_row(h, team) ==
    LET home_games == {i \in DOMAIN h : h[i].home_team = team}
        away_games == {i \in DOMAIN h : h[i].away_team = team}
        home_scored == {i \in home_games : h[i].first_inning_runs_home > 0}
        away_scored == {i \in away_games : h[i].first_inning_runs_away > 0}
    IN  [team |-> team,
         home_1st_inn_score_rate |->
             IF Cardinality(home_games) > 0
             THEN Rat(Cardinality(home_scored), Cardinality(home_games))
             ELSE Rat(45, 100),
         away_1st_inn_score_rate |->
             IF Cardinality(away_games) > 0
             THEN Rat(Cardinality(away_scored), Cardinality(away_games))
             ELSE Rat(42, 100),
         total_games |-> Cardinality(home_games) + Cardinality(away_games)]

\* an aggregator that pools a team's games of both roles into one rate
calculate_team_stats_pooled(h) ==
    LET all_teams == {h[i].home_team : i \in DOMAIN h}
                         \cup {h[i].away_team : i \in DOMAIN h}
        pooled == [team \in all_teams |->
            LET games == {i \in DOMAIN h : h[i].home_team = team \/ h[i].away_team = team}
                scored == {i \in games :
                              \/ h[i].home_team = team /\ h[i].first_inning_runs_home > 0
                              \/ h[i].away_team = team /\ h[i].first_inning_runs_away > 0}
                rate == Rat(Cardinality(scored), Cardinality(games))
            IN  [team |-> team, home_1st_inn_score_rate |-> rate,
                 away_1st_inn_score_rate |-> rate,
                 total_games |-> Cardinality(games)]]
    IN  FrameOf(all_teams, pooled)

calculate_team_stats(h) ==
    LET all_teams == {h[i].home_team : i \in DOMAIN h}
                         \cup {h[i].away_team : i \in DOMAIN h}
        row == [team \in all_teams |-> calculate_team_stats_row(h, team)]
    IN  FrameOf(all_teams, row)

\* the seven rate features of a pitcher, from the first-inning run rate r
\* ("ESTIMATED STATS (using correlations)")
pitcher_rates(r) ==
    [first_inn_run_rate  |-> r,
     walk_rate           |-> RAdd(Rat(25, 10), RMul(r, Rat(25, 10))),
     strikeout_rate      |-> RSub(RInt(10), RMul(r, RInt(4))),
     hr_rate             |-> RAdd(Rat(8, 10), RMul(r, Rat(12, 10))),
     gb_rate             |-> RSub(Rat(52, 100), RMul(r, Rat(2, 10))),
     first_inn_walk_rate |-> RAdd(Rat(25, 100), RMul(r, Rat(35, 100))),
     first_inn_hr_rate   |-> RAdd(Rat(8, 100), RMul(r, Rat(15, 100)))]

\* league_avg_pitcher of prepare_features
league_avg_pitcher ==
    [first_inn_run_rate  |-> Rat(42, 100),
     walk_rate           |-> RInt(3),
     strikeout_rate      |-> Rat(85, 10),
     hr_rate             |-> Rat(12, 10),
     gb_rate             |-> Rat(45, 100),
     first_inn_walk_rate |-> Rat(35, 100),
     first_inn_hr_rate   |-> Rat(11, 100)]

\* FirstInningPredictor._calculate_pitcher_stats: one row per pitcher name
\* other than 'Unknown', home and away starts combined
calculate_pitcher_stats(h) ==
    LET all_pitchers == ({h[i].home_pitcher : i \in DOMAIN h}
                            \cup {h[i].away_pitcher : i \in DOMAIN h}) \ {"Unknown"}
        row == [pitcher \in all_pitchers |->
            LET home_starts == {i \in DOMAIN h : h[i].home_pitcher = pitcher}
                away_starts == {i \in DOMAIN h : h[i].away_pitcher = pitcher}
                total_starts == Cardinality(home_starts) + Cardinality(away_starts)
                home_runs_allowed ==
                    Cardinality({i \in home_starts : h[i].first_inning_runs_away > 0})
                away_runs_allowed ==
                    Cardinality({i \in away_starts : h[i].first_inning_runs_home > 0})
            IN  [pitcher |-> pitcher,
                 rates   |-> pitcher_rates(Rat(home_runs_allowed + away_runs_allowed,
                                               total_starts)),
                 starts  |-> total_starts]]
    IN  FrameOf(all_pitchers, row)

\* data.merge(pitcher_stats, left_on=..., right_on='pitcher', how='left') of
\* one row and the fillna with league_avg_pitcher that follows
merged_pitcher(stats, name) ==
    IF \E i \in DOMAIN stats : stats[i].pitcher = name
    THEN stats[CHOOSE i \in DOMAIN stats : stats[i].pitcher = name].rates
    ELSE league_avg_pitcher

\* the pitcher part of prepare_features for a row with the two pitcher names:
\* with an empty pitcher_stats the home side takes the placeholder branch
\* (columns that the rename does not reach) and the merge of the away side
\* finds no 'pitcher' column in the empty frame
pitcher_features(h, home_pitcher, away_pitcher) ==
    LET stats == calculate_pitcher_stats(h)
    IN  IF Len(stats) = 0
        THEN [error |-> "KeyError", home |-> Absent, away |-> Absent]
        ELSE [error |-> None,
              home |-> Some(merged_pitcher(stats, home_pitcher)),
              away |-> Some(merged_pitcher(stats, away_pitcher))]

\* Series.mean() of a boolean selection: NaN when nothing is selected
mean_of(hits, games) ==
    IF Cardinality(games) = 0 THEN NaN
    ELSE Rat(Cardinality(hits), Cardinality(games))

\* the league-average lineup of _calculate_lineup_quality
league_avg_lineup ==
    [weighted_obp |-> Rat(320, 1000), weighted_slg |-> Rat(420, 1000),
     weighted_ops |-> Rat(740, 1000), weighted_walk_rate |-> Rat(85, 1000),
     weighted_iso |-> Rat(160, 1000), weighted_1st_inn_perf |-> Rat(450, 1000),
     hot_streak_score |-> Rat(50, 100)]

\* FirstInningPredictor._calculate_lineup_quality(team, historical_data, position)
calculate_lineup_quality(team, h, position) ==
    LET team_games == {i \in DOMAIN h : h[i].home_team = team \/ h[i].away_team = team}
        in_role(games) ==
            IF position = "home" THEN {i \in games : h[i].home_team = team}
            ELSE {i \in games : h[i].away_team = team}
        scored(games) ==
            IF position = "home"
            THEN {i \in games : h[i].first_inning_runs_home > 0}
            ELSE {i \in games : h[i].first_inning_runs_away > 0}
        rate(games) == mean_of(scored(in_role(games)), in_role(games))
        scoring_rate == rate(team_games)
        \* tail(int(len(team_games) * 0.2))
        n_recent == Cardinality(team_games) \div 5
        recent_games ==
            {i \in team_games : Cardinality({j \in team_games : j > i}) < n_recent}
        recent_rate == rate(recent_games)
        base_obp == FAdd(Rat(300, 1000), FMul(scoring_rate, Rat(15, 100)))
        base_slg == FAdd(Rat(380, 1000), FMul(scoring_rate, Rat(25, 100)))
        hot ==
            IF Cardinality(recent_games) > 0
            THEN py_max(Rat(7, 10),
                        py_min(Rat(13, 10),
                               IF FGt(scoring_rate, RInt(0))
                               THEN FDiv(recent_rate, scoring_rate)
                               ELSE RInt(1)))
            ELSE RInt(1)
    IN  IF Cardinality(team_games) = 0 THEN league_avg_lineup
        ELSE [weighted_obp          |-> base_obp,
              weighted_slg          |-> base_slg,
              weighted_ops          |-> FAdd(base_obp, base_slg),
              weighted_walk_rate    |-> FAdd(Rat(75, 1000), FMul(scoring_rate, Rat(3, 100))),
              weighted_iso          |-> FAdd(Rat(140, 1000), FMul(scoring_rate, Rat(12, 100))),
              weighted_1st_inn_perf |-> scoring_rate,
              hot_streak_score      |-> hot]

FeaturesRest ==
    /\ UNCHANGED history
    /\ UNCHANGED <<edgeVars, lifeVars, btVars, storeVars, collectVars, deskVars>>

\* team_stats = self._calculate_team_stats(historical_data)
TeamStats ==
    /\ feat' = [NoFeat EXCEPT !.teams = Some(calculate_team_stats(history))]
    /\ FeaturesRest

\* the pitcher columns of a row with these two starters
PitcherFeatures(home_pitcher, away_pitcher) ==
    /\ feat' = [NoFeat EXCEPT !.pitchers =
                   Some([home_pitcher |-> home_pitcher,
                         away_pitcher |-> away_pitcher,
                         out |-> pitcher_features(history, home_pitcher, away_pitcher)])]
    /\ FeaturesRest

\* self._calculate_lineup_quality(row[...], historical_data, position)
LineupQuality(team, position) ==
    /\ feat' = [NoFeat EXCEPT !.lineup =
                   Some([team |-> team, position |-> position,
                         out |-> calculate_lineup_quality(team, history, position)])]
    /\ FeaturesRest

InitFeatures ==
    /\ EdgeIdle
    /\ LifeIdle
    /\ BacktestIdle
    /\ StoreIdle
    /\ CollectIdle
    /\ DeskIdle
    /\ history \in Histories
    /\ feat = NoFeat

NextFeatures ==
    \/ TeamStats
    \/ \E hp \in Pitchers \cup {OtherPitcher}, ap \in Pitchers \cup {OtherPitcher} :
          PitcherFeatures(hp, ap)
    \/ \E team \in Teams \cup {OtherTeam}, position \in {"home", "away"} :
          LineupQuality(team, position)

SpecFeatures == InitFeatures /\ [][NextFeatures]_vars

-----------------------------------------------------------------------------
(* The claims on the aggregators (SpecFeatures).                            *)

HomeGames(team) == {i \in DOMAIN history : history[i].home_team = team}
AwayGames(team) == {i \in DOMAIN history : history[i].away_team = team}
HistoryTeams ==
    {history[i].home_team : i \in DOMAIN history}
        \cup {history[i].away_team : i \in DOMAIN history}

\* the fraction of a set of games in which the named side scored
ScoredFraction(games, side) ==
    Rat(Cardinality({i \in games :
                        IF side = "home" THEN history[i].first_inning_runs_home > 0
                        ELSE history[i].first_inning_runs_away > 0}),
        Cardinality(games))

InUnitInterval(r) == RGe(r, RInt(0)) /\ RLe(r, RInt(1))

\* C14: the team table has exactly one row for every team of the historical
\* set, the home rate the fraction of the team's home games in which the home
\* side scored, the away rate the fraction of its away games in which the
\* away side scored, 0.45 / 0.42 for a role without games; every rate is in
\* [0,1].
TeamRatesByRole ==
    feat.teams # Absent =>
        LET t == feat.teams[1]
        IN  /\ {t[i].team : i \in DOMAIN t} = HistoryTeams
            /\ \A team \in HistoryTeams :
                   /\ Cardinality({i \in DOMAIN t : t[i].team = team}) = 1
                   /\ \A i \in DOMAIN t : t[i].team = team =>
                          /\ t[i].home_1st_inn_score_rate =
                                 IF HomeGames(team) = {} THEN Rat(45, 100)
                                 ELSE ScoredFraction(HomeGames(team), "home")
                          /\ t[i].away_1st_inn_score_rate =
                                 IF AwayGames(team) = {} THEN Rat(42, 100)
                                 ELSE ScoredFraction(AwayGames(team), "away")
                          /\ InUnitInterval(t[i].home_1st_inn_score_rate)
                          /\ InUnitInterval(t[i].away_1st_inn_score_rate)

\* C14 witness: a team with two home games, one of them with a home run in
\* the first inning, and no away game has the rates 0.5 and 0.42
TeamRatesWitness ==
    /\ feat.teams # Absent
    /\ \E i \in DOMAIN feat.teams[1] :
           /\ feat.teams[1][i].total_games = 2
           /\ feat.teams[1][i].home_1st_inn_score_rate = Rat(1, 2)
           /\ feat.teams[1][i].away_1st_inn_score_rate = Rat(42, 100)
           /\ AwayGames(feat.teams[1][i].team) = {}

\* the pitchers of the historical set
HistoryPitchers ==
    ({history[i].home_pitcher : i \in DOMAIN history}
        \cup {history[i].away_pitcher : i \in DOMAIN history}) \ {"Unknown"}

\* the role-blind rate of a pitcher: first innings with a run of the other
\* side over all his starts
RoleBlindRate(name) ==
    LET home_starts == {i \in DOMAIN history : history[i].home_pitcher = name}
        away_starts == {i \in DOMAIN history : history[i].away_pitcher = name}
    IN  Rat(Cardinality({i \in home_starts : history[i].first_inning_runs_away > 0})
              + Cardinality({i \in away_starts : history[i].first_inning_runs_home > 0}),
            Cardinality(home_starts) + Cardinality(away_starts))

ClaimPitcherRates(name) ==
    IF name \in HistoryPitchers
    THEN LET r == RoleBlindRate(name)
         IN  [first_inn_run_rate  |-> r,
              walk_rate           |-> RAdd(Rat(5, 2), RMul(r, Rat(5, 2))),
              strikeout_rate      |-> RSub(RInt(10), RMul(r, RInt(4))),
              hr_rate             |-> RAdd(Rat(4, 5), RMul(r, Rat(6, 5))),
              gb_rate             |-> RSub(Rat(13, 25), RMul(r, Rat(1, 5))),
              first_inn_walk_rate |-> RAdd(Rat(1, 4), RMul(r, Rat(7, 20))),
              first_inn_hr_rate   |-> RAdd(Rat(2, 25), RMul(r, Rat(3, 20)))]
    ELSE [first_inn_run_rate  |-> Rat(42, 100),
          walk_rate           |-> RInt(3),
          strikeout_rate      |-> Rat(85, 10),
          hr_rate             |-> Rat(12, 10),
          gb_rate             |-> Rat(45, 100),
          first_inn_walk_rate |-> Rat(35, 100),
          first_inn_hr_rate   |-> Rat(11, 100)]

\* C15: after feature building with historical data every pitcher rate
\* feature of both sides is present and non-null, the aggregator's role-blind
\* value for a pitcher of the historical set and the league-average constant
\* of the feature otherwise, without error also for 'Unknown' and for a
\* historical set that yields no pitcher.
PitcherFeaturesPresent ==
    feat.pitchers # Absent =>
        LET q == feat.pitchers[1]
        IN  /\ q.out.error = None
            /\ q.out.home = Some(ClaimPitcherRates(q.home_pitcher))
            /\ q.out.away = Some(ClaimPitcherRates(q.away_pitcher))

LineupMetrics(l) ==
    {l.weighted_obp, l.weighted_slg, l.weighted_ops, l.weighted_walk_rate,
     l.weighted_iso, l.weighted_1st_inn_perf, l.hot_streak_score}

\* C16: the lineup-quality proxy returns defined numbers for all seven
\* metrics for every team, role and historical set, the league-average values
\* when the team has no historical appearance in the requested role.
LineupQualityDefined ==
    feat.lineup # Absent =>
        LET q == feat.lineup[1]
            in_role == IF q.position = "home" THEN HomeGames(q.team)
                       ELSE AwayGames(q.team)
        IN  /\ NaN \notin LineupMetrics(q.out)
            /\ in_role = {} =>
                   q.out = [weighted_obp |-> Rat(32, 100), weighted_slg |-> Rat(42, 100),
                            weighted_ops |-> Rat(74, 100), weighted_walk_rate |-> Rat(85, 1000),
                            weighted_iso |-> Rat(16, 100), weighted_1st_inn_perf |-> Rat(45, 100),
                            hot_streak_score |-> Rat(1, 2)]

-----------------------------------------------------------------------------
(* SpecBatch: the parts of prepare_features that look at the batch alone:  *)
(* the park indicators, the temperature and the target.                    *)

MaxBatch == 2

\* the fixed temperature of a batch without a temperature column
DefaultTemp == 72

BatchVenues == Venues \cup {"Petco Park"}
TempSet == {NaN, RInt(60), RInt(90)}

BatchesOf(values) == UNION {[1..k -> values] : k \in 1..MaxBatch}

\* "Park factor (encode top venues)": a column for each of the ten most
\* common venues of the batch itself, 1 on the rows at that venue
park_indicators(venues) ==
    LET top_venues == Range(head(value_counts(venues), TopVenues))
    IN  [c \in {ParkColumn(v) : v \in top_venues} |->
            [i \in DOMAIN venues |-> IF ParkColumn(venues[i]) = c THEN 1 ELSE 0]]

\* the values of a column without its missing ones, ascending
RECURSIVE sorted(_)
sorted(values) ==
    IF values = <<>> THEN <<>>
    ELSE LET k == CHOOSE i \in DOMAIN values :
                      \A j \in DOMAIN values : RLe(values[i], values[j])
         IN  <<values[k]>> \o sorted(SubSeq(values, 1, k - 1)
                                        \o SubSeq(values, k + 1, Len(values)))

\* Series.median(): missing values skipped, NaN when nothing is left
median(column) ==
    LET s == sorted(SelectSeq(column, LAMBDA v : v # NaN))
        n == Len(s)
    IN  IF n = 0 THEN NaN
        ELSE IF n % 2 = 1 THEN s[(n + 1) \div 2]
        ELSE RDiv(RAdd(s[n \div 2], s[n \div 2 + 1]), RInt(2))

\* "Temperature (fill missing with median)": data['temp'] of a batch whose
\* temperature column, when it has one, is `column`
temperature(has_column, column) ==
    LET temp_median == median(column)
    IN  IF has_column
        THEN [i \in DOMAIN column |->
                 IF column[i] = NaN THEN temp_median ELSE column[i]]
        ELSE [i \in DOMAIN column |-> RInt(DefaultTemp)]

\* the rows of a data file as far as the target goes
TargetRows ==
    [first_inning_runs_home : RunsSet, first_inning_runs_away : RunsSet,
     first_inning_run_scored : BOOLEAN]

\* data['target'] after prepare_features: Absent when the input has no
\* first_inning_run_scored column
target_column(has_flag, rows) ==
    IF has_flag
    THEN Some([i \in DOMAIN rows |->
                  IF rows[i].first_inning_run_scored THEN 1 ELSE 0])
    ELSE Absent

\* y = df['target'] of train, y_actual = test_df_prepared['target'].values of
\* run_backtest
read_target(column) ==
    IF column = Absent THEN [error |-> "KeyError", y |-> Absent]
    ELSE [error |-> None, y |-> column]

BatchRest ==
    UNCHANGED <<history, edgeVars, lifeVars, btVars, storeVars, collectVars, deskVars>>

\* prepare_features of a batch at these venues for a model trained on a batch
\* whose venues rank `ranking`
ParkIndicators(ranking, venues) ==
    /\ feat' = [NoFeat EXCEPT !.parks =
                   Some([vocabulary |-> Range(head(ranking, TopVenues)),
                         venues |-> venues,
                         out |-> park_indicators(venues)])]
    /\ BatchRest

Temperature(has_column, column) ==
    /\ feat' = [NoFeat EXCEPT !.temp =
                   Some([has_column |-> has_column, column |-> column,
                         out |-> temperature(has_column, column)])]
    /\ BatchRest

\* prepare_features and the read of the target by train and by run_backtest
Target(has_flag, rows) ==
    /\ feat' = [NoFeat EXCEPT !.target =
                   Some([has_flag |-> has_flag, rows |-> rows,
                         out |-> read_target(target_column(has_flag, rows))])]
    /\ BatchRest

InitBatch ==
    /\ EdgeIdle
    /\ LifeIdle
    /\ BacktestIdle
    /\ DataIdle

NextBatch ==
    \/ \E ranking \in Rankings, venues \in BatchesOf(BatchVenues) :
          ParkIndicators(ranking, venues)
    \/ \E has_column \in BOOLEAN, column \in BatchesOf(TempSet) :
          Temperature(has_column, column)
    \/ \E has_flag \in BOOLEAN, rows \in BatchesOf(TargetRows) :
          Target(has_flag, rows)

SpecBatch == InitBatch /\ [][NextBatch]_vars

\* C17: for every venue v of the vocabulary fixed at training time and every
\* row prepared for inference or backtest the indicator of v is 1 exactly
\* when the row is at v; the vocabulary is not recomputed from the batch, and
\* a row at a venue outside it has all indicators 0.
ParkVocabularyFixed ==
    feat.parks # Absent =>
        LET q == feat.parks[1]
        IN  /\ DOMAIN q.out = {ParkColumn(v) : v \in q.vocabulary}
            /\ \A v \in q.vocabulary : \A i \in DOMAIN q.venues :
                   /\ ParkColumn(v) \in DOMAIN q.out
                   /\ q.out[ParkColumn(v)][i] = IF q.venues[i] = v THEN 1 ELSE 0

\* C18: after feature building the temperature of every row is defined: a
\* missing one is the median of the batch's temperatures in a batch of
\* several rows and the default 72 on a single row, whether the temperature
\* field is absent or present with a missing value.
TemperatureDefined ==
    feat.temp # Absent =>
        LET q == feat.temp[1]
            present == SelectSeq(q.column, LAMBDA v : v # NaN)
        IN  \A i \in DOMAIN q.column :
                /\ q.out[i] # NaN
                /\ (q.has_column /\ q.column[i] # NaN) => q.out[i] = q.column[i]
                /\ (Len(q.column) = 1 /\ (~q.has_column \/ q.column[i] = NaN)) =>
                       q.out[i] = RInt(72)
                /\ (Len(q.column) > 1 /\ q.has_column /\ q.column[i] = NaN
                      /\ present # <<>>) =>
                       /\ Cardinality({j \in DOMAIN present : RLe(present[j], q.out[i])}) * 2
                              >= Len(present)
                       /\ Cardinality({j \in DOMAIN present : RGe(present[j], q.out[i])}) * 2
                              >= Len(present)

\* C20: when the input table has no segment-scored flag column the core
\* recomputes the target from the two runs columns, 1 exactly when
\* first_inning_runs_home > 0 or first_inning_runs_away > 0, and goes on
\* without error.
TargetRecomputed ==
    (feat.target # Absent /\ ~feat.target[1].has_flag) =>
        LET q == feat.target[1]
        IN  /\ q.out.error = None
            /\ q.out.y # Absent
            /\ \A i \in DOMAIN q.rows :
                   q.out.y[1][i] = 1 <=>
                       \/ q.rows[i].first_inning_runs_home > 0
                       \/ q.rows[i].first_inning_runs_away > 0

-----------------------------------------------------------------------------
(* SpecCollect: the data collector's records, the data file it writes and  *)
(* the repair of the file by fix_csv.                                      *)

MaxGames == 2

\* what the feed holds for one side of an inning: no "runs" key, a null, or a
\* number of runs
SideEntries ==
    {[kind |-> "missing", runs |-> 0], [kind |-> "null", runs |-> 0]}
        \cup {[kind |-> "int", runs |-> n] : n \in RunsSet}

\* the answer of the live feed for a game: a failed request, or liveData with
\* its linescore innings (the first one is enough here)
Feeds ==
    {[status |-> "error", innings |-> <<>>], [status |-> "ok", innings |-> <<>>]}
        \cup {[status |-> "ok", innings |-> <<[home |-> h, away |-> a]>>] :
                 h \in SideEntries, a \in SideEntries}

\* first_inning.get(side, {}).get("runs", 0)
get_runs(entry) == IF entry.kind = "missing" THEN 0 ELSE entry.runs

NoRuns == [home |-> 0, away |-> 0, total |-> 0]

\* an extraction whose total counts the home half only
extract_first_inning_runs_home_only(live_data) ==
    IF live_data.innings = <<>> THEN NoRuns
    ELSE LET first_inning == live_data.innings[1]
         IN  IF first_inning.home.kind = "null" \/ first_inning.away.kind = "null"
             THEN NoRuns
             ELSE [home |-> get_runs(first_inning.home),
                   away |-> get_runs(first_inning.away),
                   total |-> get_runs(first_inning.home)]

\* extract_first_inning_runs: the runs of the first inning; a null makes the
\* addition raise, and the bare except falls through to the zeros
extract_first_inning_runs(live_data) ==
    IF live_data.innings = <<>> THEN NoRuns
    ELSE LET first_inning == live_data.innings[1]
         IN  IF first_inning.home.kind = "null" \/ first_inning.away.kind = "null"
             THEN NoRuns
             ELSE [home |-> get_runs(first_inning.home),
                   away |-> get_runs(first_inning.away),
                   total |-> get_runs(first_inning.home) + get_runs(first_inning.away)]

\* get_game_data: {} (Absent) when the request fails, else the record
get_game_data(feed) ==
    IF feed.status = "error" THEN Absent
    ELSE LET first_inning_runs == extract_first_inning_runs(feed)
         IN  Some([first_inning_runs_home |-> first_inning_runs.home,
                   first_inning_runs_away |-> first_inning_runs.away,
                   first_inning_run_scored |-> first_inning_runs.total > 0])

\* the text csv.DictWriter writes for a bool
csv_text(flag) == IF flag THEN "True" ELSE "False"

\* the text to_csv writes for the 0/1 column of fix_csv
int_text(flag) == IF flag THEN "1" ELSE "0"

\* the value read_csv gives a cell of the flag column: empty cells are missing
flag_value(text) ==
    IF text \in {"True", "1"} THEN Some(TRUE)
    ELSE IF text \in {"False", "0"} THEN Some(FALSE)
    ELSE Absent

\* save_to_csv: one row per record, the cells as text (the runs are integers
\* and read back as the same integers)
save_to_csv(games_data) ==
    [i \in DOMAIN games_data |->
        [games_data[i] EXCEPT
            !.first_inning_run_scored = csv_text(games_data[i].first_inning_run_scored)]]

\* fix_csv: the flag column recomputed from the two runs columns
fix_csv(rows) ==
    [i \in DOMAIN rows |->
        [rows[i] EXCEPT
            !.first_inning_run_scored =
                int_text(rows[i].first_inning_runs_away > 0
                           \/ rows[i].first_inning_runs_home > 0)]]

\* rows of a data file of any origin: the flag cell may be empty or wrong
FileRows ==
    [first_inning_runs_home : RunsSet, first_inning_runs_away : RunsSet,
     first_inning_run_scored : {"", "True", "False"}]

CollectRest ==
    UNCHANGED <<edgeVars, lifeVars, btVars, storeVars, featVars, deskVars>>

\* one turn of the loop of collect_season_data over a Final game
GetGameData(feed) ==
    /\ Len(records) < MaxGames
    /\ records' = IF get_game_data(feed) = Absent THEN records
                  ELSE Append(records, get_game_data(feed)[1])
    /\ UNCHANGED <<datafile, fixed>>
    /\ CollectRest

\* the end of collect_season_data: save_to_csv of the collected games ("No
\* data to save" leaves the file alone)
SaveToCsv ==
    /\ records # <<>>
    /\ datafile' = save_to_csv(records)
    /\ fixed' = FALSE
    /\ records' = <<>>
    /\ CollectRest

\* fix_csv on the data file (FileNotFoundError when there is none)
FixCsv ==
    /\ datafile # <<>>
    /\ datafile' = fix_csv(datafile)
    /\ fixed' = TRUE
    /\ UNCHANGED records
    /\ CollectRest

InitCollect ==
    /\ EdgeIdle
    /\ LifeIdle
    /\ BacktestIdle
    /\ StoreIdle
    /\ FeaturesIdle
    /\ DeskIdle
    /\ records = <<>>
    /\ datafile \in {<<>>} \cup {<<r>> : r \in FileRows}
    /\ fixed = FALSE

NextCollect ==
    \/ \E feed \in Feeds : GetGameData(feed)
    \/ SaveToCsv
    \/ FixCsv

SpecCollect == InitCollect /\ [][NextCollect]_vars

Scored(r) == r.first_inning_runs_home > 0 \/ r.first_inning_runs_away > 0

-----------------------------------------------------------------------------
(* SpecConfig: the value-bet thresholds of the two call sites and what a   *)
(* caller can set.                                                         *)

\* the variables no desk operation touches
DeskRest ==
    UNCHANGED <<edgeVars, lifeVars, btVars, storeVars, featVars, collectVars>>

\* thresholds a caller may want, in percent
ThresholdSet == {3, 5}

\* A caller settles on a threshold for a call site.  DailyPredictor and
\* ModelBacktester have no attribute, argument or file that takes it
\* (generate_predictions(target_date, include_odds), run_backtest(
\* test_data_file, odds)): the wish stays with the caller.
Configure(site, pct) ==
    /\ settings' = [settings EXCEPT ![site] = pct]
    /\ UNCHANGED <<day, ledger, tracker, calls>>
    /\ DeskRest

ConfigOdds == {-110, 100}
ConfigProbs == {Rat(54, 100), Rat(60, 100)}

InitConfig ==
    /\ e_odds \in ConfigOdds
    /\ e_prob \in ConfigProbs
    /\ e_stake = RInt(0)
    /\ e_edge = RInt(0)
    /\ calc = NoCalc
    /\ latest \in {Some(m) : m \in TrainedModels}
    /\ predictor = NewPredictor
    /\ last = Op("init", "idle", None, Absent, Absent, 0, {})
    /\ season \in SeasonsOf(1, BacktestRows)
    /\ proba \in [DOMAIN season -> BacktestProbs]
    /\ NoResults
    /\ DataIdle

NextConfig ==
    \/ \E site \in {"live", "backtest"}, pct \in ThresholdSet : Configure(site, pct)
    \/ LiveEdge
    \/ \E odds \in BacktestOdds : RunBacktest(odds)

SpecConfig == InitConfig /\ [][NextConfig]_vars

\* C21: the value-bet threshold of the live recommendations and that of the
\* backtest report are settable by the caller, independently, and each call
\* site flags a bet according to its own configured value: whenever a call
\* site makes its decisions, a bet is flagged exactly when its edge exceeds
\* the threshold configured for that site.
ThresholdsConfigured ==
    [][/\ (calc'.live # calc.live) =>
              (calc'.live[1].is_value_bet
                  <=> RGt(calc'.live[1].edge, Rat(settings.live, 100)))
       /\ (results_df' # results_df) =>
              \A i \in DOMAIN results_df'[1].rows :
                  results_df'[1].rows[i].would_bet
                      <=> RGt(results_df'[1].rows[i].edge, Rat(settings.backtest, 100))
      ]_vars

-----------------------------------------------------------------------------
(* The claims on the day's predictions (Spec).                             *)

\* C22: in generate_predictions with odds entry an entry that is no integer
\* does not abort the batch: that game is marked as having no odds and gets
\* no implied probability, edge, EV or tier, every game with valid odds gets
\* its edge, and every game of the day is in the output.
OddsEntryTolerated ==
    (day # Absent /\ day[1].outcome # "no_model" /\ day[1].include_odds) =>
        /\ day[1].predictions # Absent
        /\ \A g \in DOMAIN TodaysGames :
               \E i \in DOMAIN day[1].predictions[1] :
                   LET q == day[1].predictions[1][i]
                       odds == int_of(strip(day[1].lines[g]))
                   IN  /\ q.game_id = TodaysGames[g].game_id
                       /\ q.has_odds <=> odds # Absent
                       /\ odds = Absent =>
                              DOMAIN q \cap {"odds", "implied_probability", "edge",
                                             "ev_dollars", "ev_percent",
                                             "is_value_bet", "bet_quality"} = {}
                       /\ odds # Absent =>
                              q.edge = RSub(q.model_probability, ClaimImplied(odds[1]))

\* C25: generate_predictions returns every game of the day exactly once, the
\* games with odds before the games without, and the games with odds in
\* non-increasing order of edge.
PredictionsSorted ==
    (day # Absent /\ day[1].outcome # "no_model") =>
        /\ day[1].predictions # Absent
        /\ LET out == day[1].predictions[1]
           IN  /\ Len(out) = Len(TodaysGames)
               /\ \A g \in DOMAIN TodaysGames :
                      Cardinality({i \in DOMAIN out :
                                      out[i].game_id = TodaysGames[g].game_id}) = 1
               /\ \A i, j \in DOMAIN out :
                      (i < j /\ out[j].has_odds) =>
                          /\ out[i].has_odds
                          /\ RGe(out[i].edge, out[j].edge)

-----------------------------------------------------------------------------
(* SpecRepeat: predict_game called again and again on a loaded model.      *)

MaxCalls == 2

\* prospective rows handed to predict_game (game_data), the second with a
\* team and a starter no historical set holds and no temperature reading
RepeatGames ==
    {[home_team |-> "ATL", away_team |-> "NYY", home_pitcher |-> "Cole",
      away_pitcher |-> "Unknown", temperature |-> RInt(90)],
     [home_team |-> "NYY", away_team |-> OtherTeam, home_pitcher |-> OtherPitcher,
      away_pitcher |-> "Cole", temperature |-> NaN]}

\* events the historical file holds or gains between calls
RepeatEvents ==
    {[home_team |-> "ATL", away_team |-> "NYY", home_pitcher |-> "Cole",
      away_pitcher |-> "Unknown", first_inning_runs_home |-> 2,
      first_inning_runs_away |-> 0],
     [home_team |-> "NYY", away_team |-> "ATL", home_pitcher |-> "Unknown",
      away_pitcher |-> "Unknown", first_inning_runs_home |-> 0,
      first_inning_runs_away |-> 0]}

\* data.merge(team_stats[[...]], left_on=..., right_on='team', how='left')
\* of one row: the two rates of the team, NaN for a team without a row
merged_team(stats, team) ==
    IF \E i \in DOMAIN stats : stats[i].team = team
    THEN LET r == stats[CHOOSE i \in DOMAIN stats : stats[i].team = team]
         IN  [home |-> r.home_1st_inn_score_rate, away |-> r.away_1st_inn_score_rate]
    ELSE [home |-> NaN, away |-> NaN]

\* the columns of the one-row frame of a prospective game once the rate
\* tables, the pitcher columns, the lineup metrics and the temperature are in
row_columns(game, team_stats, p, home_lineup, away_lineup, temp) ==
    IF p.error # None THEN [error |-> p.error, row |-> Absent]
    ELSE [error |-> None,
          row |-> Some(
              [home_team_off_rate        |-> merged_team(team_stats, game.home_team).home,
               home_team_off_rate_away   |-> merged_team(team_stats, game.home_team).away,
               away_team_off_rate_home   |-> merged_team(team_stats, game.away_team).home,
               away_team_off_rate        |-> merged_team(team_stats, game.away_team).away,
               home_pitcher_1st_inn_rate |-> p.home[1].first_inn_run_rate,
               away_pitcher_1st_inn_rate |-> p.away[1].first_inn_run_rate,
               home_pitcher_walk_rate    |-> p.home[1].walk_rate,
               away_pitcher_walk_rate    |-> p.away[1].walk_rate,
               home_weighted_obp         |-> home_lineup.weighted_obp,
               away_weighted_obp         |-> away_lineup.weighted_obp,
               home_hot_streak_score     |-> home_lineup.hot_streak_score,
               away_hot_streak_score     |-> away_lineup.hot_streak_score,
               temp                      |-> temp,
               temp_hot                  |-> IF FGt(temp, RInt(80)) THEN RInt(1)
                                             ELSE RInt(0),
               temp_cold                 |-> IF FLt(temp, RInt(60)) THEN RInt(1)
                                             ELSE RInt(0)])]

\* the frame prepare_features returns for the one-row frame of a prospective
\* game, with historical data
prepared_row(game, h) ==
    row_columns(game,
                calculate_team_stats(h),
                pitcher_features(h, game.home_pitcher, game.away_pitcher),
                calculate_lineup_quality(game.home_team, h, "home"),
                calculate_lineup_quality(game.away_team, h, "away"),
                temperature(TRUE, <<game.temperature>>)[1])

\* a prepare_features that keeps the rate tables it computed on the predictor
prepare_features_keeping(self, df, historical_data) ==
    [self |-> [self EXCEPT
                   !.team_stats = Some(calculate_team_stats(historical_data)),
                   !.pitcher_stats = Some(calculate_pitcher_stats(historical_data))],
     df |-> df,
     historical_data |-> historical_data,
     data |-> prepared_row(df[1], historical_data)]

\* FirstInningPredictor.prepare_features(df, historical_data) as a call: the
\* predictor, the frame handed in and the historical table once it returned,
\* and the frame it returns (it works on df.copy(), reads historical_data
\* and assigns nothing on self)
prepare_features_call(self, df, historical_data) ==
    [self |-> self,
     df |-> df,
     historical_data |-> historical_data,
     data |-> prepared_row(df[1], historical_data)]

\* X = df[self.feature_names].fillna(0) of the one-row frame
feature_vector(row, feature_names) ==
    IF \A i \in DOMAIN feature_names : feature_names[i] \in DOMAIN row
    THEN Some([i \in DOMAIN feature_names |->
                  IF row[feature_names[i]] = NaN THEN RInt(0)
                  ELSE row[feature_names[i]]])
    ELSE Absent

\* the end of predict_game: what it returns for the feature matrix X, and
\* the predictor and the inputs as prepare_features (call c) left them
predicted(c, X) ==
    [self |-> c.self,
     game_data |-> c.df[1],
     historical_data |-> c.historical_data,
     error |-> IF c.data.error # None THEN c.data.error
               ELSE IF X = Absent THEN "KeyError" ELSE None,
     X |-> X,
     prediction |-> IF X = Absent THEN Absent
                    ELSE Some(predict_proba(c.self, X[1]))]

\* X = df[self.feature_names].fillna(0) after the prepare_features call c
extract_features(c) ==
    predicted(c, IF c.data.error # None THEN Absent
                 ELSE feature_vector(c.data.row[1], c.self.feature_names))

\* FirstInningPredictor.predict_game(game_data, historical_data) as a call on
\* a loaded model: the predictor and the two inputs once it returned, the
\* feature vector and the prediction
predict_game_call(self, game_data, historical_data) ==
    extract_features(prepare_features_call(self, <<game_data>>, historical_data))

\* the two rate tables of a historical set, computed as prepare_features does
rate_tables(historical_data) ==
    [historical_data |-> historical_data,
     team_stats |-> calculate_team_stats(historical_data),
     pitcher_stats |-> calculate_pitcher_stats(historical_data)]

RepeatRest ==
    /\ UNCHANGED <<disk, clock, trainer, runs, feat>>
    /\ UNCHANGED <<edgeVars, lifeVars, btVars, collectVars>>
    /\ UNCHANGED <<settings, day, ledger, tracker>>

\* the call of predict_game recorded with what it found and what it left
Returns(op, game, self, r, out) ==
    /\ calls' = Append(calls,
           [op |-> op, game_data |-> game, self |-> self,
            historical_data |-> history,
            after |-> [self |-> r.self, game_data |-> r.game_data,
                       historical_data |-> r.historical_data],
            out |-> out])
    /\ history' = r.historical_data

\* what predict_game handed back
prediction_out(r) == [error |-> r.error, X |-> r.X, prediction |-> r.prediction]

\* predictor.predict_game(game, historical_data=historical) on the loaded
\* model
PredictGameCall(game) ==
    /\ reader # Absent
    /\ reader[1].error = None
    /\ Len(calls) < MaxCalls
    /\ Returns("predict_game", game, reader[1].predictor,
               predict_game_call(reader[1].predictor, game, history),
               prediction_out(predict_game_call(reader[1].predictor, game, history)))
    /\ reader' = Some([reader[1] EXCEPT !.predictor =
                          predict_game_call(reader[1].predictor, game, history).self])
    /\ RepeatRest

\* the rate tables as the caller sees them
rates_out(r) == [team_stats |-> r.team_stats, pitcher_stats |-> r.pitcher_stats]

\* the team and pitcher rate tables computed once more
RecomputeRates ==
    /\ Len(calls) < MaxCalls
    /\ Returns("rates", None, None,
               [self |-> None, game_data |-> None,
                historical_data |-> rate_tables(history).historical_data],
               rates_out(rate_tables(history)))
    /\ UNCHANGED reader
    /\ RepeatRest

\* the historical file gains a game between two calls
HistoryGrows(e) ==
    /\ Len(history) < MaxHistory
    /\ history' = Append(history, e)
    /\ UNCHANGED <<reader, calls>>
    /\ RepeatRest

\* a model has been trained and saved, the historical file holds a game
InitRepeat ==
    /\ EdgeIdle
    /\ LifeIdle
    /\ BacktestIdle
    /\ CollectIdle
    /\ DeskIdle
    /\ \E p \in FittedPredictors :
          /\ disk = [latest |-> Some(pickle_dump(model_data(p, 1))), archive |-> <<>>]
          /\ runs = <<model_data(p, 1)>>
    /\ clock = 1
    /\ trainer = [pc |-> "idle", model_data |-> Absent]
    /\ reader = Absent
    /\ history \in [1..1 -> RepeatEvents]
    /\ feat = NoFeat

NextRepeat ==
    \/ LoadLatest
    \/ \E game \in RepeatGames : PredictGameCall(game)
    \/ RecomputeRates
    \/ \E e \in RepeatEvents : HistoryGrows(e)

SpecRepeat == InitRepeat /\ [][NextRepeat]_vars

-----------------------------------------------------------------------------
(* SpecLedger: BetTracker.log_bet and update_result on bets_log.csv.       *)

MaxBets == 2

Digits == <<"0", "1", "2", "3", "4", "5", "6", "7", "8", "9">>

\* str(n) of a non-negative integer, a sequence of characters
RECURSIVE decimal(_)
decimal(n) ==
    IF n < 10 THEN <<Digits[n + 1]>>
    ELSE decimal(n \div 10) \o <<Digits[(n % 10) + 1]>>

\* the format specification 04d: zero-padded to at least four characters
RECURSIVE zero_padded(_, _)
zero_padded(text, width) ==
    IF Len(text) >= width THEN text ELSE zero_padded(<<"0">> \o text, width)

\* an identifier numbered by the rows the file holds, not by the next row
next_bet_id_of_length(df) ==
    <<"B", "E", "T">> \o zero_padded(decimal(Len(df)), 4)

\* bet_id = f"BET{len(df)+1:04d}"
next_bet_id(df) ==
    <<"B", "E", "T">> \o zero_padded(decimal(Len(df) + 1), 4)

\* the bets a caller logs: odds, stake and edge; result and profit_loss as
\* the entry leaves them for a pending bet
BetData ==
    [odds : {-110, 150}, stake : {RInt(50)}, edge : {Rat(4, 100)},
     result : {Some("PENDING")}, profit_loss : {RInt(0)},
     actual_occurred : {Absent}]

\* BetTracker.log_bet(bet_data) on the rows df of the file: the rows written
log_bet(df, bet_data) ==
    Append(df, [bet_id |-> next_bet_id(df),
                edge_tier |-> classify_edge_tier(bet_data.edge)] @@ bet_data)

\* a profit that pays every winning bet as a plus-money bet
profit_plus_money(result, odds, stake) ==
    IF result = "WIN" THEN RMul(stake, Rat(odds, 100))
    ELSE IF result = "LOSS" THEN RSub(RInt(0), stake)
    ELSE RInt(0)

\* "Calculate profit/loss" of update_result
profit(result, odds, stake) ==
    IF result = "WIN"
    THEN IF odds < 0 THEN RMul(stake, Rat(100, Abs(odds)))
         ELSE RMul(stake, Rat(odds, 100))
    ELSE IF result = "LOSS" THEN RSub(RInt(0), stake)
    ELSE RInt(0)

\* BetTracker.update_result(bet_id, result, actual_occurred) on the rows df:
\* the rows of the file afterwards (the file is not written for an
\* identifier that no row has)
update_result(df, bet_id, result, actual_occurred) ==
    LET idx == {i \in DOMAIN df : df[i].bet_id = bet_id}
    IN  IF idx = {} THEN df
        ELSE LET first == CHOOSE i \in idx : \A j \in idx : i <= j
             IN  [df EXCEPT ![first] =
                     [@ EXCEPT !.result = Some(result),
                               !.actual_occurred = actual_occurred,
                               !.profit_loss = profit(result, df[first].odds,
                                                      df[first].stake)]]

\* identifiers a caller asks to update: those of the first bets, and one
\* written without the padding
UpdateIds ==
    {<<"B", "E", "T">> \o zero_padded(decimal(n), 4) : n \in 1..MaxBets}
        \cup {<<"B", "E", "T", "1">>}

\* results a caller passes: the CLI upper-cases what was typed
Results == {"WIN", "LOSS", "PUSH"}

LedgerRest ==
    /\ UNCHANGED <<settings, day, calls>>
    /\ DeskRest

\* tracker.log_bet(bet_data)
LogBet(bet_data) ==
    /\ Len(ledger) < MaxBets
    /\ ledger' = log_bet(ledger, bet_data)
    /\ tracker' = [op |-> "log_bet", bet_id |-> next_bet_id(ledger),
                   result |-> None, before |-> ledger]
    /\ LedgerRest

\* tracker.update_result(bet_id, result, actual_occurred)
UpdateResult(bet_id, result, actual_occurred) ==
    /\ ledger' = update_result(ledger, bet_id, result, actual_occurred)
    /\ tracker' = [op |-> "update_result", bet_id |-> bet_id,
                   result |-> result, before |-> ledger]
    /\ LedgerRest

\* BetTracker.__init__ with no file yet: _initialize_bet_log writes the
\* header
InitLedger ==
    /\ EdgeIdle
    /\ LifeIdle
    /\ BacktestIdle
    /\ DataIdle

NextLedger ==
    \/ \E bet_data \in BetData : LogBet(bet_data)
    \/ \E bet_id \in UpdateIds, result \in Results,
          actual_occurred \in {Absent, Some("True")} :
          UpdateResult(bet_id, result, actual_occurred)

SpecLedger == InitLedger /\ [][NextLedger]_vars

\* the number an identifier carries after "BET"
BetNumber(bet_id) == int_of(SubSeq(bet_id, 4, Len(bet_id)))

\* C24: after any sequence of log_bet and update_result calls from an empty
\* ledger the identifiers are pairwise distinct, the k-th logged bet has
\* identifier number k, and no call changes the identifier of a bet the
\* ledger already holds.
IdentifiersMonotone ==
    /\ [](/\ \A k \in DOMAIN ledger :
                /\ SubSeq(ledger[k].bet_id, 1, 3) = <<"B", "E", "T">>
                /\ BetNumber(ledger[k].bet_id) = Some(k)
          /\ \A j, k \in DOMAIN ledger :
                j # k => ledger[j].bet_id # ledger[k].bet_id)
    /\ [][\A k \in DOMAIN ledger :
              /\ k \in DOMAIN ledger'
              /\ ledger'[k].bet_id = ledger[k].bet_id]_vars

\* a second bet has been logged after the first was settled
IdentifiersMonotoneWitness ==
    /\ Len(ledger) = 2
    /\ tracker.op = "log_bet"
    /\ Len(tracker.before) = 1
    /\ tracker.before[1].result = Some("WIN")
    /\ ledger[2].bet_id = <<"B", "E", "T", "0", "0", "0", "2">>

\* the payout of a winning bet, and the loss of a losing one
ClaimProfit(result, odds, stake) ==
    CASE result = "WIN" /\ odds < 0 -> RDiv(RMul(stake, RInt(100)), RInt(0 - odds))
      [] result = "WIN" /\ odds >= 0 -> RDiv(RMul(stake, RInt(odds)), RInt(100))
      [] result = "LOSS" -> RSub(RInt(0), stake)
      [] OTHER -> RInt(0)

\* the fields of a ledger row that update_result is not said to set
Kept(row) ==
    [bet_id |-> row.bet_id, odds |-> row.odds, stake |-> row.stake,
     edge |-> row.edge, edge_tier |-> row.edge_tier]

\* C27: update_result(bet_id, result) changes only the row with that
\* identifier: it sets its result and sets its profit_loss to
\* stake*100/|odds| (odds < 0) or stake*odds/100 for WIN, to minus the stake
\* for LOSS and to 0 for any other result; every other row is unchanged, and
\* for an identifier that no row has the ledger is unchanged.
UpdateTouchesOneRow ==
    tracker.op = "update_result" =>
        LET before == tracker.before
            matching == {k \in DOMAIN before : before[k].bet_id = tracker.bet_id}
        IN  /\ matching = {} => ledger = before
            /\ DOMAIN ledger = DOMAIN before
            /\ \A k \in DOMAIN before :
                  IF k \in matching
                  THEN /\ ledger[k].result = Some(tracker.result)
                       /\ REq(ledger[k].profit_loss,
                              ClaimProfit(tracker.result, before[k].odds,
                                          before[k].stake))
                       /\ Kept(ledger[k]) = Kept(before[k])
                  ELSE ledger[k] = before[k]

\* a winning bet at minus odds settled while another bet is in the ledger
UpdateTouchesOneRowWitness ==
    /\ tracker.op = "update_result"
    /\ tracker.result = "WIN"
    /\ Len(tracker.before) = 2
    /\ \E k \in DOMAIN tracker.before :
          /\ tracker.before[k].bet_id = tracker.bet_id
          /\ tracker.before[k].odds < 0
          /\ ledger[k] # tracker.before[k]

-----------------------------------------------------------------------------
(* The claims on the backtest report and its table (SpecBacktest).         *)

\* the six bins of the calibration table
CalibrationLabels == {"<40%", "40-45%", "45-50%", "50-55%", "55-60%", ">60%"}

\* the games the calibration table counts in a bin
GamesIn(cal, label) == IF label \in DOMAIN cal THEN cal[label] ELSE 0

\* C26: in the calibration table every predicted probability in [0,1],
\* exactly 0 and exactly 1 included, is assigned to exactly one of the six
\* bins, so the bin counts sum to the number of evaluated events.
CalibrationCoversAll ==
    (report # Absent /\ results_df # Absent) =>
        /\ \A i \in DOMAIN results_df[1].rows :
               results_df[1].rows[i].prob_bin \in CalibrationLabels
        /\ GamesIn(report[1].calibration, "<40%")
               + GamesIn(report[1].calibration, "40-45%")
               + GamesIn(report[1].calibration, "45-50%")
               + GamesIn(report[1].calibration, "50-55%")
               + GamesIn(report[1].calibration, "55-60%")
               + GamesIn(report[1].calibration, ">60%")
             = report[1].total_games

\* the columns run_backtest builds for one event, before any display
BuiltRow(i) == result_row(i - 1, season[i], proba[i], last.odds)

\* C30: displaying the backtest report does not alter the per-event
\* results: the table run_backtest keeps, writes to the results file and
\* returns has exactly the columns and the values it was built with (game
\* id to profit), none added by display_results.
DisplayKeepsResults ==
    /\ results_df # Absent =>
           /\ results_df[1].columns = ResultColumns
           /\ \A i \in DOMAIN results_df[1].rows :
                  results_df[1].rows[i] = BuiltRow(i)
    /\ results_file # Absent => results_file[1].columns = ResultColumns

-----------------------------------------------------------------------------
(* The claim on flags and tiers at the two call sites (SpecConfig).        *)

\* C28: at each call site the value-bet flag agrees with the tier label of
\* the same edge, boundaries included: a backtest row is flagged exactly
\* when its tier is Good, Great or Excellent, and a live prediction with
\* odds is a value bet exactly when its bet quality is Fair or better.
FlagAgreesWithTier ==
    /\ results_df # Absent =>
           \A i \in DOMAIN results_df[1].rows :
               results_df[1].rows[i].would_bet
                   <=> results_df[1].rows[i].edge_tier
                           \in {"Good (5-7%)", "Great (7-10%)", "Excellent (10%+)"}
    /\ calc.live # Absent =>
           (calc.live[1].is_value_bet
               <=> calc.live[1].bet_quality \in {"FAIR", "GOOD", "GREAT", "EXCELLENT"})

-----------------------------------------------------------------------------
(* SpecDouble: calculate_edge and calculate_ev in the arithmetic of the     *)
(* build, IEEE 754 binary64 with round-to-nearest-even (CPython float).     *)
(* A natural number is the sequence of its digits to the base 2^12, lowest  *)
(* first and without high zeros; a float is sign * m * 2^e with m of at     *)
(* most 53 bits.  Exponents stay far from the ends of the binary64 range.   *)

Base == 2^12

RECURSIVE limbs(_)
limbs(n) == IF n = 0 THEN <<>> ELSE <<n % Base>> \o limbs(n \div Base)

RECURSIVE trim(_)
trim(a) ==
    IF a = <<>> THEN a
    ELSE IF a[Len(a)] = 0 THEN trim(SubSeq(a, 1, Len(a) - 1))
    ELSE a

Rest(a) == IF a = <<>> THEN a ELSE Tail(a)
Low(a) == IF a = <<>> THEN 0 ELSE Head(a)

RECURSIVE add_limbs(_, _, _)
add_limbs(a, b, carry) ==
    IF a = <<>> /\ b = <<>> THEN (IF carry = 0 THEN <<>> ELSE <<carry>>)
    ELSE <<(Low(a) + Low(b) + carry) % Base>>
             \o add_limbs(Rest(a), Rest(b), (Low(a) + Low(b) + carry) \div Base)

\* a - b for a >= b, high zeros kept
RECURSIVE sub_limbs(_, _, _)
sub_limbs(a, b, borrow) ==
    IF a = <<>> THEN <<>>
    ELSE <<(Base + Head(a) - Low(b) - borrow) % Base>>
             \o sub_limbs(Tail(a), Rest(b),
                          IF Head(a) - Low(b) - borrow < 0 THEN 1 ELSE 0)

less_limbs(a, b) ==
    IF Len(a) # Len(b) THEN Len(a) < Len(b)
    ELSE \E i \in DOMAIN a :
             /\ a[i] < b[i]
             /\ \A j \in DOMAIN a : j > i => a[j] = b[j]

\* a * c + carry for a digit c, high zeros kept
RECURSIVE times_digit(_, _, _)
times_digit(a, c, carry) ==
    IF a = <<>> THEN (IF carry = 0 THEN <<>> ELSE <<carry>>)
    ELSE <<(Head(a) * c + carry) % Base>>
             \o times_digit(Tail(a), c, (Head(a) * c + carry) \div Base)

\* a * Base
times_base(a) == IF a = <<>> THEN a ELSE <<0>> \o a

RECURSIVE mul_limbs(_, _)
mul_limbs(a, b) ==
    IF a = <<>> THEN <<>>
    ELSE add_limbs(trim(times_digit(b, Head(a), 0)),
                   times_base(mul_limbs(Tail(a), b)), 0)

\* a * 2^s
shift_left(a, s) ==
    IF a = <<>> THEN a
    ELSE [i \in 1..(s \div 12) |-> 0] \o times_digit(a, 2^(s % 12), 0)

\* quotient and remainder of a by a digit c > 0, high zeros kept
digit_under(h, low, c) ==
    [q |-> <<(h.r * Base + low) \div c>> \o h.q, r |-> (h.r * Base + low) % c]

RECURSIVE div_digit(_, _)
div_digit(a, c) ==
    IF a = <<>> THEN [q |-> <<>>, r |-> 0]
    ELSE digit_under(div_digit(Tail(a), c), Head(a), c)

\* floor(a / 2^s)
shift_right(a, s) ==
    IF s \div 12 >= Len(a) THEN <<>>
    ELSE trim(div_digit(SubSeq(a, s \div 12 + 1, Len(a)), 2^(s % 12)).q)

\* a mod 2^s
low_bits(a, s) ==
    IF s \div 12 >= Len(a) THEN a
    ELSE trim(SubSeq(a, 1, s \div 12) \o <<a[s \div 12 + 1] % 2^(s % 12)>>)

RECURSIVE digit_length(_)
digit_length(n) == IF n = 0 THEN 0 ELSE 1 + digit_length(n \div 2)

\* the number of bits of a
bit_length(a) ==
    IF a = <<>> THEN 0 ELSE 12 * (Len(a) - 1) + digit_length(a[Len(a)])

\* the 53 or 54 highest bits kept, one added when the bits dropped are more
\* than half a unit, or half a unit and kept is odd
round_up(sign, kept, half, more, e) ==
    IF half /\ (more \/ kept[1] % 2 = 1)
    THEN IF bit_length(add_limbs(kept, <<1>>, 0)) > 53
         THEN [sign |-> sign, m |-> shift_right(add_limbs(kept, <<1>>, 0), 1),
               e |-> e + 1]
         ELSE [sign |-> sign, m |-> add_limbs(kept, <<1>>, 0), e |-> e]
    ELSE [sign |-> sign, m |-> kept, e |-> e]

\* m * 2^e (and a little more when inexact) rounded to 53 bits, ties to even
round_half_even(sign, m, e, inexact) ==
    IF bit_length(m) <= 53 THEN [sign |-> sign, m |-> m, e |-> e]
    ELSE round_up(sign,
                  shift_right(m, bit_length(m) - 53),
                  Low(shift_right(m, bit_length(m) - 54)) % 2 = 1,
                  inexact \/ low_bits(m, bit_length(m) - 54) # <<>>,
                  e + bit_length(m) - 53)

\* float(n) of an int
float_of(n) == [sign |-> IF n < 0 THEN -1 ELSE 1, m |-> limbs(Abs(n)), e |-> 0]

\* j more digits of the quotient r / d for 0 <= r < d, and the remainder
digit_after(h, digit) == [m |-> h.m \o <<digit>>, r |-> h.r]

RECURSIVE quotient_digits(_, _, _)
quotient_digits(r, d, j) ==
    IF j = 0 THEN [m |-> <<>>, r |-> r]
    ELSE digit_after(quotient_digits((r * Base) % d, d, j - 1), (r * Base) \div d)

\* n / d of two ints, n >= 0 and 0 < d < 2^19 (true division, correctly
\* rounded): the quotient with seven digits after the point, rounded
int_div(n, d) ==
    round_half_even(1,
                    trim(quotient_digits(n % d, d, 7).m \o limbs(n \div d)),
                    0 - 7 * 12,
                    quotient_digits(n % d, d, 7).r # 0)

\* the sum of x and y with both magnitudes brought to the exponent e
aligned_sum(x, y, e) ==
    IF x.sign = y.sign
    THEN round_half_even(x.sign,
             add_limbs(shift_left(x.m, x.e - e), shift_left(y.m, y.e - e), 0),
             e, FALSE)
    ELSE IF less_limbs(trim(shift_left(x.m, x.e - e)), trim(shift_left(y.m, y.e - e)))
    THEN round_half_even(y.sign,
             trim(sub_limbs(shift_left(y.m, y.e - e), shift_left(x.m, x.e - e), 0)),
             e, FALSE)
    ELSE round_half_even(x.sign,
             trim(sub_limbs(shift_left(x.m, x.e - e), shift_left(y.m, y.e - e), 0)),
             e, FALSE)

\* x + y
float_add(x, y) ==
    IF x.m = <<>> THEN y
    ELSE IF y.m = <<>> THEN x
    ELSE aligned_sum(x, y, IF x.e < y.e THEN x.e ELSE y.e)

\* x - y
float_sub(x, y) == float_add(x, [y EXCEPT !.sign = 0 - y.sign])

\* x * y
float_mul(x, y) ==
    round_half_even(x.sign * y.sign, mul_limbs(x.m, y.m), x.e + y.e, FALSE)

\* x > 0, x < 0
float_positive(x) == x.m # <<>> /\ x.sign = 1
float_negative(x) == x.m # <<>> /\ x.sign = -1

\* DailyPredictor.american_odds_to_probability in float arithmetic
american_odds_to_probability_float(odds) ==
    IF odds < 0
    THEN int_div(Abs(odds), Abs(odds) + 100)
    ELSE int_div(100, odds + 100)

\* DailyPredictor.calculate_edge in float arithmetic
calculate_edge_float(model_prob, implied_prob) == float_sub(model_prob, implied_prob)

\* "Calculate potential win amount" of calculate_ev, the stake an int
win_amount_float(odds, stake) ==
    IF odds < 0
    THEN float_mul(float_of(stake), int_div(100, Abs(odds)))
    ELSE float_mul(float_of(stake), int_div(odds, 100))

\* ev = (model_prob * win_amount) - ((1 - model_prob) * stake)
calculate_ev_float(model_prob, odds, stake) ==
    float_sub(float_mul(model_prob, win_amount_float(odds, stake)),
              float_mul(float_sub(float_of(1), model_prob), float_of(stake)))

\* model probabilities (the float nearest to the fraction), non-zero odds
\* and positive stakes
DoubleProbs == {Rat(4, 5), Rat(3, 4), Rat(3, 5), Rat(1, 2), Rat(23, 100), Rat(11, 20)}
DoubleOdds == {-400, -300, -150, -110, 100, 150, 400}
DoubleStakes == {RInt(100), RInt(50)}

\* the edge and the expected value of one bet, as the build computes them
CalculateEvFloat ==
    /\ calc.double = Absent
    /\ calc' = [calc EXCEPT !.double = Some(
           [edge |-> calculate_edge_float(int_div(e_prob[1], e_prob[2]),
                         american_odds_to_probability_float(e_odds)),
            ev_dollars |-> calculate_ev_float(int_div(e_prob[1], e_prob[2]),
                               e_odds, e_stake[1])])]
    /\ UNCHANGED <<e_odds, e_prob, e_stake, e_edge>>
    /\ UNCHANGED <<lifeVars, btVars, dataVars>>

InitDouble ==
    /\ e_odds \in DoubleOdds
    /\ e_prob \in DoubleProbs
    /\ e_stake \in DoubleStakes
    /\ e_edge = RInt(0)
    /\ calc = NoCalc
    /\ LifeIdle
    /\ BacktestIdle
    /\ DataIdle

NextDouble == CalculateEvFloat

SpecDouble == InitDouble /\ [][NextDouble]_vars

\* C29: for every model probability in [0,1], every non-zero American odds
\* and every positive stake, the expected value calculate_ev returns is
\* positive exactly when the edge is positive, zero exactly when the edge is
\* zero and negative exactly when the edge is negative.
EvSignFollowsEdge ==
    calc.double # Absent =>
        /\ float_positive(calc.double[1].ev_dollars)
               <=> float_positive(calc.double[1].edge)
        /\ float_negative(calc.double[1].ev_dollars)
               <=> float_negative(calc.double[1].edge)

====
